---- MODULE Spec2Model ----
(***************************************************************************)
(* State-machine model of the rate-limit ledger                            *)
(* (src/services/rateLimitService.js), of searchPeople and the shared      *)
(* browser session (src/services/linkedinService.js), the only caller of   *)
(* the ledger, and of startScraping (src/services/scrapeService.js) with   *)
(* the entry points of the server that start it.                           *)
(*                                                                         *)
(* Time is counted in ticks of 60/TicksPerMinute seconds since the epoch;  *)
(* a Date, and the ISO string it is stored as, is the tick number (the ISO *)
(* string keeps the millisecond value exactly, so writing and parsing it   *)
(* back is lossless).  The UTC date string is the day number.              *)
(*                                                                         *)
(* Each exported ledger operation is one atomic step taken at one reading  *)
(* of the clock; searchPeople is a sequence of steps between which time    *)
(* passes and the process may stop.  File writes succeed (the error that   *)
(* saveRateLimitState swallows is not modelled), and the load started at   *)
(* module initialisation has finished before the first operation.          *)
(*                                                                         *)
(* Spec is searchPeople under any caller that makes one call at a time.    *)
(* LedgerSpec is the ledger module under any sequence of calls of its      *)
(* exported operations.  Both include the passing of time and restarts.    *)
(* RunSpec is one invocation of startScraping in one process, with the     *)
(* passing of time.  ServerSpec is the server process: the run started by  *)
(* the app.listen callback and the runs started by POST /start, whose      *)
(* steps interleave at the awaits, within one reading of the clock.        *)
(* ExtractSpec is the extraction of searchPeople                           *)
(* (src/services/dataExtractionService.js) applied to any page, and        *)
(* FilterSpec is filterResults applied to any extracted person and job     *)
(* title: titles are sequences of characters, normalised as the code       *)
(* normalises them.  HandoffSpec is the loop of startScraping that hands   *)
(* the filtered results of one unit to the ClickUp list                    *)
(* (src/unnamed/part_003), one request at a time.                          *)
(* StaleSpec is the selection of one company by shouldScrapeCompany        *)
(* (src/services/hubspotService.js) and its checkpoint, over the days of   *)
(* a calendar.  ScrapeSpec is one call of LinkedInScraper.scrape           *)
(* (src/src/linkedin-scraper.js).  GuardSpec is the running flag of        *)
(* scrapeController.js and that of scripts/scheduler.js with the runs they *)
(* launch.  LoggerSpec is one call of logError of the logging layer.       *)
(***************************************************************************)
EXTENDS Integers, Sequences, FiniteSets, TLC

\* ---------------------------------------------------------------- bounds
TicksPerMinute == 2          \* clock granularity of the model
LeadTicks == 4               \* the run starts this many ticks before midnight UTC
Horizon == 8                 \* the clock is followed for this many ticks
MaxErrors == 3               \* cap of errors['429']
MaxOtherErrors == 2          \* cap of errors['403'] and errors.network
MaxViews == 4                \* cap of viewCount (one above the daily limit)
MaxIssued == 5               \* cap of the search navigations counted per quota day
MaxSearchCount == 5          \* cap of the session's searchCount
MaxResults == 1              \* cap of the number of candidates a search returns
MaxOpen == 2                 \* cap of the browser contexts open at one time
NumCompanies == 2            \* companies to scrape in a run
NumTitles == 2               \* job titles searched for each company
MaxCalls == 2                \* searchPeople calls followed in the server process
MaxAnchors == 2              \* profile links of a page of results
NumProfiles == 2             \* profiles the links and records of a page point to
MaxRecords == 3              \* JSON-LD Person records of a page
MaxTitleWords == 2           \* words of an extracted title
MaxRoleWords == 2            \* words of a job title searched for
MaxFiltered == 2             \* persons in the filtered results of a unit
FirstDay == 58               \* the day the staleness model starts at (28 February)
MaxDay == 152                \* the last day the staleness model follows (2 June)
MaxUrls == 3                 \* profile URLs given to one call of scrape
MaxPosts == 3                \* POST /start requests the server gets
MaxCronTicks == 3            \* calls of checkAndScrapeCompanies (start of the script, cron)
MaxStack == 60               \* calls of critical the call stack has room for

\* ------------------------------------------------- program configuration
\* rateLimitService.js:13-17; all four are read from the environment, the
\* values below are a configuration with a small quota and a short backoff.
DAILY_VIEW_LIMIT == 3
BACKOFF_BASE == 1            \* minutes
BACKOFF_MULTIPLIER == 2
MinutesPerDay == 1440        \* a UTC date covers 24 * 60 minutes

NULL == -1                   \* JavaScript null (dates and times are >= 0)
ErrorKinds == {"429", "403", "network"}

TicksPerDay == MinutesPerDay * TicksPerMinute
StartTime == TicksPerDay - LeadTicks
MaxNow == StartTime + Horizon

\* new Date().toISOString().split('T')[0]
Today(t) == t \div TicksPerDay

\* Math.ceil(a / b) for a >= 0
Ceil(a, b) == (a + b - 1) \div b

RECURSIVE Pow(_, _)
\* Math.pow(b, e) for a natural exponent
Pow(b, e) == IF e = 0 THEN 1 ELSE b * Pow(b, e - 1)

VARIABLES
  now,             \* the wall clock
  rateLimitState,  \* the module-level variable of rateLimitService.js
  file,            \* data/rate-limit.json: <<>> when absent, <<state>> otherwise
  last,            \* the step just taken: the operation's name, argument and
                   \* result, and whether its load reset the counters
  streak,          \* history: the counter values and windows of the calls of
                   \* handleRateLimitError('429') made in a row on one UTC date
  pc,              \* where the searchPeople call in flight stands ("idle": none)
  sharedBrowser,   \* linkedinService.js: a shared browser, context and page exist
  searchCount,     \* linkedinService.js: searches made on the shared session
  nav,             \* the response of the search navigation in flight
  call,            \* the current (or the last finished) searchPeople call
  issued,          \* history: search navigations issued since the counters' last reset
  recorded,        \* history: accepted responses recorded since the counters' last reset
  issuedDay,       \* history: search navigations issued on the UTC date .day
  openContexts,    \* history: browser contexts launched and not closed
  run,             \* the invocation of startScraping whose steps are being taken
  parked,          \* another invocation of startScraping, waiting at an await,
                   \* with the searchPeople call it is in
  isRunning,       \* scrapeController.js: scrapingStatus.isRunning
  calls,           \* history: searchPeople calls started by the runs of the server
  input,           \* the arguments of the function a unit's step applies
  output           \* what the function returned, and the calls it made

ledgerVars == <<now, rateLimitState, file, last, streak>>
searchVars == <<pc, sharedBrowser, searchCount, nav, call, issued, recorded, issuedDay,
               openContexts>>
runVars == <<run, parked, isRunning, calls>>
unitVars == <<input, output>>
vars == <<now, rateLimitState, file, last, streak,
          pc, sharedBrowser, searchCount, nav, call, issued, recorded, issuedDay,
          openContexts, run, parked, isRunning, calls, input, output>>

\* The object literal of lines 20-30
InitialState ==
  [date |-> NULL, viewCount |-> 0, lastReset |-> NULL, backoffUntil |-> NULL,
   errors |-> [k \in ErrorKinds |-> 0]]

\* The object literal of lines 44-54, 77-87 and 220-230
FreshState(t) ==
  [date |-> Today(t), viewCount |-> 0, lastReset |-> t, backoffUntil |-> NULL,
   errors |-> [k \in ErrorKinds |-> 0]]

\* saveRateLimitState writes the module variable, whatever it holds
saveRateLimitState(m) == <<m>>

\* line 42: state.date !== today
isNewDay(state, t) == state.date # Today(t)

\* lines 60-62: state.backoffUntil && new Date() > backoffTime
loadBackoffPassed(state, t) == state.backoffUntil # NULL /\ t > state.backoffUntil

\* loadRateLimitState: m is the module variable, f the file, t the time.
\* On the backoff-passed branch the save of line 64 runs before the
\* assignment of line 71, so it writes the old module variable m.
loadRateLimitState(m, f, t) ==
  IF f = <<>>
  THEN [mem |-> FreshState(t), file |-> saveRateLimitState(FreshState(t)), reset |-> TRUE]
  ELSE LET state == f[1] IN
       IF isNewDay(state, t)
       THEN [mem |-> FreshState(t), file |-> saveRateLimitState(FreshState(t)), reset |-> TRUE]
       ELSE IF loadBackoffPassed(state, t)
            THEN [mem |-> [state EXCEPT !.backoffUntil = NULL],
                  file |-> saveRateLimitState(m), reset |-> FALSE]
            ELSE [mem |-> state, file |-> f, reset |-> FALSE]

NoResult == [allowed |-> TRUE, reason |-> "none", remainingMinutes |-> 0, backoffMinutes |-> 0]

\* a variant with the comparison of line 118 turned round
backoffActive_inverted(m, t) == m.backoffUntil # NULL /\ t > m.backoffUntil

\* line 118: new Date() < backoffTime
backoffActive(m, t) == m.backoffUntil # NULL /\ t < m.backoffUntil

\* a variant that rounds down (Math.floor)
remainingMinutes_floor(m, t) == (m.backoffUntil - t) \div TicksPerMinute

\* line 119: Math.ceil((backoffTime - new Date()) / 1000 / 60)
remainingMinutes(m, t) == Ceil(m.backoffUntil - t, TicksPerMinute)

\* a variant that admits one request more (> for >=)
quotaReached_strict(m) == m.viewCount > DAILY_VIEW_LIMIT

\* line 133
quotaReached(m) == m.viewCount >= DAILY_VIEW_LIMIT

\* canMakeRequest
canMakeRequest(m, f, t) ==
  LET L == loadRateLimitState(m, f, t) IN
  IF backoffActive(L.mem, t)
  THEN [mem |-> L.mem, file |-> L.file, reset |-> L.reset,
        res |-> [NoResult EXCEPT !.allowed = FALSE, !.reason = "backoff",
                                 !.remainingMinutes = remainingMinutes(L.mem, t)]]
  ELSE LET cleared == L.mem.backoffUntil # NULL
           m1 == [L.mem EXCEPT !.backoffUntil = NULL]
           f1 == IF cleared THEN saveRateLimitState(m1) ELSE L.file
       IN IF quotaReached(m1)
          THEN [mem |-> m1, file |-> f1, reset |-> L.reset,
                res |-> [NoResult EXCEPT !.allowed = FALSE, !.reason = "daily_limit"]]
          ELSE [mem |-> m1, file |-> f1, reset |-> L.reset, res |-> NoResult]

\* a variant that increments the variable and does not write the file
recordView_unsaved(m, f, t) ==
  LET L == loadRateLimitState(m, f, t)
      m1 == [L.mem EXCEPT !.viewCount = @ + 1]
  IN [mem |-> m1, file |-> L.file, reset |-> L.reset, res |-> NoResult]

\* recordView
recordView(m, f, t) ==
  LET L == loadRateLimitState(m, f, t)
      m1 == [L.mem EXCEPT !.viewCount = @ + 1]
  IN [mem |-> m1, file |-> saveRateLimitState(m1), reset |-> L.reset, res |-> NoResult]

\* a variant whose exponent is the counter itself
backoffMinutesFor_offByOne(count) == BACKOFF_BASE * Pow(BACKOFF_MULTIPLIER, count)

\* line 182: BACKOFF_BASE * Math.pow(BACKOFF_MULTIPLIER, count - 1)
backoffMinutesFor(count) == BACKOFF_BASE * Pow(BACKOFF_MULTIPLIER, count - 1)

\* handleRateLimitError(errorType)
handleRateLimitError(m, f, t, errorType) ==
  LET L == loadRateLimitState(m, f, t)
      count == L.mem.errors[errorType] + 1
      minutes == backoffMinutesFor(count)
      m1 == [L.mem EXCEPT !.errors[errorType] = count,
                          !.backoffUntil = t + minutes * TicksPerMinute]
  IN [mem |-> m1, file |-> saveRateLimitState(m1), reset |-> L.reset,
      res |-> [NoResult EXCEPT !.backoffMinutes = minutes]]

\* a variant that treats 403 as handleRateLimitError treats 429
handleForbiddenError_backoff(m, f, t) == handleRateLimitError(m, f, t, "403")

\* handleForbiddenError
handleForbiddenError(m, f, t) ==
  LET L == loadRateLimitState(m, f, t)
      m1 == [L.mem EXCEPT !.errors["403"] = @ + 1]
  IN [mem |-> m1, file |-> saveRateLimitState(m1), reset |-> L.reset, res |-> NoResult]

\* resetDailyLimit
resetDailyLimit(m, f, t) ==
  [mem |-> FreshState(t), file |-> saveRateLimitState(FreshState(t)), reset |-> TRUE,
   res |-> NoResult]

\* getStatus: only the load changes state
getStatus(m, f, t) ==
  LET L == loadRateLimitState(m, f, t)
  IN [mem |-> L.mem, file |-> L.file, reset |-> L.reset, res |-> NoResult]

\* The record kept of a ledger operation
Entry(op, arg, r) ==
  [op |-> op, arg |-> arg, res |-> r.res, reset |-> r.reset]

\* Module initialisation (line 252): the variable of lines 20-30, then a load
ModuleInit(f, t) == loadRateLimitState(InitialState, f, t)

InitLedger ==
  /\ now = StartTime
  /\ LET r == ModuleInit(<<>>, StartTime) IN
       /\ rateLimitState = r.mem
       /\ file = r.file
       /\ last = [op |-> "init", arg |-> "", res |-> NoResult, reset |-> r.reset]
  /\ streak = <<>>

\* The calls of handleRateLimitError('429') in a row: any other operation
\* ends the row, and so does a reset of the counters by the load
StreakAfter(op, arg, r) ==
  IF op = "handleRateLimitError" /\ arg = "429"
  THEN LET e == [count |-> r.mem.errors["429"], minutes |-> r.res.backoffMinutes]
       IN IF r.reset THEN <<e>> ELSE Append(streak, e)
  ELSE <<>>

Apply(op, arg, r) ==
  /\ rateLimitState' = r.mem
  /\ file' = r.file
  /\ last' = Entry(op, arg, r)
  /\ streak' = StreakAfter(op, arg, r)
  /\ now' = now

\* The entry of a step that is no ledger operation
Passed ==
  [op |-> "tick", arg |-> "", res |-> NoResult, reset |-> FALSE]

\* real time passes
Tick ==
  /\ now < MaxNow
  /\ now' = now + 1
  /\ last' = Passed
  /\ UNCHANGED <<rateLimitState, file, streak>>

CanMakeRequest == Apply("canMakeRequest", "", canMakeRequest(rateLimitState, file, now))

RecordView ==
  /\ rateLimitState.viewCount < MaxViews
  /\ Apply("recordView", "", recordView(rateLimitState, file, now))

HandleRateLimitError ==
  \E errorType \in {"429", "network"} :
    /\ rateLimitState.errors[errorType] < (IF errorType = "429" THEN MaxErrors ELSE MaxOtherErrors)
    /\ Apply("handleRateLimitError", errorType,
             handleRateLimitError(rateLimitState, file, now, errorType))

HandleForbiddenError ==
  /\ rateLimitState.errors["403"] < MaxOtherErrors
  /\ Apply("handleForbiddenError", "", handleForbiddenError(rateLimitState, file, now))

GetStatus == Apply("getStatus", "", getStatus(rateLimitState, file, now))

\* The process stops and is started again: the file stays, the module is
\* loaded anew.
RestartLedger ==
  LET r == ModuleInit(file, now) IN
    /\ rateLimitState' = r.mem
    /\ file' = r.file
    /\ last' = [op |-> "restart", arg |-> "", res |-> NoResult, reset |-> r.reset]
    /\ streak' = <<>>
    /\ now' = now

\* ------------------------------------------------------------ searchPeople
\* One call of searchPeople: what it has done so far (admitted, session,
\* navigated), whether it visits the feed before its search (detour), how getSharedBrowser went (probe: the liveness probe of
\* an existing session, launched: a browser context was launched), the
\* response its search navigation got, and what the caller gets: result is
\* "returned" with a list of results candidates, or "thrown" with the
\* message error (for a returned call error is what was logged)
NoCall ==
  [admitted |-> FALSE, session |-> FALSE, detour |-> FALSE, navigated |-> FALSE,
   probe |-> "none", launched |-> FALSE, response |-> "none",
   result |-> "none", error |-> "none", results |-> 0]

InitSearch ==
  /\ pc = "idle"
  /\ sharedBrowser = FALSE
  /\ searchCount = 0
  /\ nav = "none"
  /\ call = NoCall
  /\ issued = 0
  /\ recorded = 0
  /\ issuedDay = [day |-> Today(StartTime), n |-> 0]
  /\ openContexts = 0

\* The ledger part of a step of searchPeople that ends in the ledger state r
\* after the operation op
LedgerStep(op, arg, r) ==
  /\ rateLimitState' = r.mem
  /\ file' = r.file
  /\ last' = Entry(op, arg, r)
  /\ streak' = StreakAfter(op, arg, r)
  /\ now' = now

\* a variant that goes on after a denial instead of throwing
SP_CanMakeRequest_ignoreDenial ==
  /\ pc = "idle"
  /\ LET r == canMakeRequest(rateLimitState, file, now) IN
       /\ LedgerStep("canMakeRequest", "", r)
       /\ issued' = IF r.reset THEN 0 ELSE issued
       /\ recorded' = IF r.reset THEN 0 ELSE recorded
       /\ pc' = "admitted"
       /\ call' = [NoCall EXCEPT !.admitted = r.res.allowed, !.result = "running"]
  /\ UNCHANGED <<sharedBrowser, searchCount, nav, issuedDay, openContexts>>

\* lines 981-985: the admission check; a denial is thrown to the caller
SP_CanMakeRequest ==
  /\ pc = "idle"
  /\ LET r == canMakeRequest(rateLimitState, file, now) IN
       /\ LedgerStep("canMakeRequest", "", r)
       /\ issued' = IF r.reset THEN 0 ELSE issued
       /\ recorded' = IF r.reset THEN 0 ELSE recorded
       /\ IF r.res.allowed
          THEN /\ pc' = "admitted"
               /\ call' = [NoCall EXCEPT !.admitted = TRUE, !.result = "running"]
          ELSE /\ pc' = "idle"
               /\ call' = [NoCall EXCEPT !.result = "thrown", !.error = r.res.reason]
  /\ UNCHANGED <<sharedBrowser, searchCount, nav, issuedDay, openContexts>>

\* a variant that forgets the registered session without closing it
closeSharedBrowser_unclosed(shared, count, open) ==
  IF shared
  THEN [shared |-> FALSE, count |-> 0, open |-> open]
  ELSE [shared |-> FALSE, count |-> count, open |-> open]

\* closeSharedBrowser (lines 965-977): a registered session is closed and
\* unregistered and searchCount is set to 0; without one nothing happens.
\* open counts the contexts launched and not closed.
closeSharedBrowser(shared, count, open) ==
  IF shared
  THEN [shared |-> FALSE, count |-> 0, open |-> open - 1]
  ELSE [shared |-> FALSE, count |-> count, open |-> open]

\* How the construction of a session (lines 905-961) ends: "ok"; "rejected":
\* the cookie is missing, the feed redirects to the login page or does not
\* load, the launched browser is closed and an error thrown (lines 911-954);
\* "launchFailed": getBrowserContext of line 907 rejects, nothing is launched.
\* On a launched context, context.newPage() of line 908 succeeds.
CreateOutcomes == {"ok", "rejected", "launchFailed"}

\* lines 905-961: the construction of a session when none is registered
createSharedBrowser(count, open, probe, create) ==
  CASE create = "ok" ->
         [ok |-> TRUE, shared |-> TRUE, count |-> 0, open |-> open + 1,
          probe |-> probe, launched |-> TRUE, error |-> "none"]
    [] create = "rejected" ->
         [ok |-> FALSE, shared |-> FALSE, count |-> count, open |-> open,
          probe |-> probe, launched |-> TRUE, error |-> "session"]
    [] create = "launchFailed" ->
         [ok |-> FALSE, shared |-> FALSE, count |-> count, open |-> open,
          probe |-> probe, launched |-> FALSE, error |-> "session"]

\* a variant that starts every search of a reused session at searchCount 0
getSharedBrowser_resetOnReuse(shared, count, open, probeOk, create) ==
  IF shared /\ probeOk
  THEN [ok |-> TRUE, shared |-> TRUE, count |-> 0, open |-> open,
        probe |-> "ok", launched |-> FALSE, error |-> "none"]
  ELSE LET c == closeSharedBrowser(shared, count, open)
       IN createSharedBrowser(c.count, c.open, IF shared THEN "failed" ELSE "none", create)

\* getSharedBrowser (lines 880-962).  probeOk: the page of the registered
\* session answers and is not on a login page.  The result: whether a
\* session is returned (ok) or the error thrown, the registration and
\* searchCount afterwards, the contexts open afterwards, how the probe went
\* and whether a context was launched.  A failed probe is caught at line
\* 896: the old session is closed and the construction follows.
getSharedBrowser(shared, count, open, probeOk, create) ==
  IF shared /\ probeOk
  THEN [ok |-> TRUE, shared |-> TRUE, count |-> count, open |-> open,
        probe |-> "ok", launched |-> FALSE, error |-> "none"]
  ELSE LET c == closeSharedBrowser(shared, count, open)
       IN createSharedBrowser(c.count, c.open, IF shared THEN "failed" ELSE "none", create)

\* a variant that makes the detour one search early
detourDue_early(count) == (count + 1) % 5 = 0

\* line 998, read with no await after the searchCount++ of line 988
detourDue(count) == count % 5 = 0

\* lines 987-998: the session is acquired, searchCount incremented and read
\* for the detour; an error of getSharedBrowser is thrown to the caller
SP_GetSharedBrowser ==
  /\ pc = "admitted"
  /\ \E probeOk \in BOOLEAN, create \in CreateOutcomes :
       LET g == getSharedBrowser(sharedBrowser, searchCount, openContexts, probeOk, create) IN
         /\ g.count < MaxSearchCount
         /\ g.open <= MaxOpen
         /\ sharedBrowser' = g.shared
         /\ openContexts' = g.open
         /\ IF g.ok
            THEN /\ searchCount' = g.count + 1
                 /\ pc' = "ready"
                 /\ call' = [call EXCEPT !.session = TRUE, !.probe = g.probe,
                                         !.launched = g.launched,
                                         !.detour = detourDue(g.count + 1)]
            ELSE /\ searchCount' = g.count
                 /\ pc' = "idle"
                 /\ call' = [call EXCEPT !.result = "thrown", !.error = g.error,
                                         !.probe = g.probe, !.launched = g.launched]
  /\ last' = Passed
  /\ UNCHANGED <<now, rateLimitState, file, streak, nav, issued, recorded, issuedDay>>


\* What the search navigation of line 1011 meets: a page of results ("ok"),
\* a status 403 or 429, a page with a Cloudflare marker, a page asking for a
\* one-time code ("verification"), a page showing a CAPTCHA ("captcha"), a
\* navigation error ("error"), or a closed page or browser ("closed")
Responses == {"ok", "403", "429", "cloudflare", "verification", "captcha", "error", "closed"}

\* lines 1016-1045: the responses that pass the checks of the status and of
\* the Cloudflare markers; nothing looks for a verification or CAPTCHA page
Accepted(response) == response \in {"ok", "verification", "captcha"}

\* lines 1141-1148: the candidates extracted from the page; the page of a
\* challenge lists no profile
Extracted(response) == IF response = "ok" THEN 0..MaxResults ELSE {0}

\* The search navigations counted on the UTC date of time t
IssuedOn(t) == IF issuedDay.day = Today(t) THEN issuedDay.n ELSE 0

\* lines 991-1014: the detour to the feed when due, then page.goto(searchUrl);
\* a failing detour is caught at line 1163 and the call returns []
SP_Navigate ==
  /\ pc = "ready"
  /\ \E feedOk \in BOOLEAN, response \in Responses :
       IF call.detour /\ ~feedOk
       THEN /\ pc' = "idle"
            /\ call' = [call EXCEPT !.result = "returned"]
            /\ UNCHANGED <<nav, issued, issuedDay>>
       ELSE /\ feedOk
            /\ issued < MaxIssued
            /\ IssuedOn(now) < MaxIssued
            /\ response = "429" => rateLimitState.errors["429"] + 2 <= MaxErrors
            /\ response = "403" => rateLimitState.errors["403"] + 2 <= MaxOtherErrors
            /\ Accepted(response) => rateLimitState.viewCount < MaxViews
            /\ pc' = "navigated"
            /\ nav' = response
            /\ call' = [call EXCEPT !.navigated = TRUE, !.response = response]
            /\ issued' = issued + 1
            /\ issuedDay' = [day |-> Today(now), n |-> IssuedOn(now) + 1]
  /\ last' = Passed
  /\ UNCHANGED <<now, rateLimitState, file, streak, sharedBrowser, searchCount, recorded,
                 openContexts>>

\* lines 1018-1022 and 1047-1051: the status check records the failure and
\* throws '403 Forbidden ...', the catch of line 1046 matches that message
\* and records the failure again
onForbidden(m, f, t) ==
  LET a == handleForbiddenError(m, f, t)
      b == handleForbiddenError(a.mem, a.file, t)
  IN [b EXCEPT !.reset = a.reset \/ b.reset]

\* lines 1023-1027 and 1052-1056: likewise for '429 Rate Limit - ...'
onRateLimited(m, f, t) ==
  LET a == handleRateLimitError(m, f, t, "429")
      b == handleRateLimitError(a.mem, a.file, t, "429")
  IN [b EXCEPT !.reset = a.reset \/ b.reset]

\* lines 1016-1068 and 1163-1202: what searchPeople does with the response
SP_Respond ==
  /\ pc = "navigated"
  /\ pc' = "idle"
  /\ nav' = "none"
  /\ CASE Accepted(nav) ->
            LET r == recordView(rateLimitState, file, now) IN
              /\ LedgerStep("recordView", "", r)
              /\ issued' = IF r.reset THEN 0 ELSE issued
              /\ recorded' = (IF r.reset THEN 0 ELSE recorded) + 1
              /\ \E n \in Extracted(nav) :
                    call' = [call EXCEPT !.result = "returned", !.results = n]
              /\ UNCHANGED <<sharedBrowser, searchCount, openContexts>>
       [] nav = "403" ->
            LET r == onForbidden(rateLimitState, file, now)
                c == closeSharedBrowser(sharedBrowser, searchCount, openContexts)
            IN
              /\ LedgerStep("handleForbiddenError", "", r)
              /\ issued' = IF r.reset THEN 0 ELSE issued
              /\ recorded' = IF r.reset THEN 0 ELSE recorded
              /\ call' = [call EXCEPT !.result = "thrown", !.error = "403"]
              /\ sharedBrowser' = c.shared
              /\ searchCount' = c.count
              /\ openContexts' = c.open
       [] nav = "429" ->
            LET r == onRateLimited(rateLimitState, file, now) IN
              /\ LedgerStep("handleRateLimitError", "429", r)
              /\ issued' = IF r.reset THEN 0 ELSE issued
              /\ recorded' = IF r.reset THEN 0 ELSE recorded
              /\ call' = [call EXCEPT !.result = "thrown", !.error = "429"]
              /\ UNCHANGED <<sharedBrowser, searchCount, openContexts>>
       [] nav = "cloudflare" ->
              /\ call' = [call EXCEPT !.result = "thrown", !.error = "cloudflare"]
              /\ last' = Passed
              /\ UNCHANGED <<now, rateLimitState, file, streak, issued, recorded,
                             sharedBrowser, searchCount, openContexts>>
       [] nav = "error" ->
              /\ call' = [call EXCEPT !.result = "returned", !.error = "network"]
              /\ last' = Passed
              /\ UNCHANGED <<now, rateLimitState, file, streak, issued, recorded,
                             sharedBrowser, searchCount, openContexts>>
       [] nav = "closed" ->
            LET c == closeSharedBrowser(sharedBrowser, searchCount, openContexts) IN
              /\ call' = [call EXCEPT !.result = "returned", !.error = "network"]
              /\ sharedBrowser' = c.shared
              /\ searchCount' = c.count
              /\ openContexts' = c.open
              /\ last' = Passed
              /\ UNCHANGED <<now, rateLimitState, file, streak, issued, recorded>>
  /\ UNCHANGED issuedDay

\* ----------------------------------------------------------- startScraping
\* One invocation of startScraping (scrapeService.js:74-226): the entry point
\* that made it, where it stands (st), the numbers of companies to scrape and
\* of job titles it fetched, the SearchUnit it is at (company, title), what
\* it did with the unit before (did), whether it passed over a unit of the
\* company it is at (skipped), the companies whose lastLinkedinScrape it has
\* updated, and what it returned or threw
NoRun ==
  [entry |-> "none", st |-> "none", companies |-> 0, titles |-> 0,
   company |-> 0, title |-> 0, did |-> "none", skipped |-> FALSE,
   checkpoints |-> {}, result |-> "none"]

\* lines 95 and 98: where the loops stand at company c and job title t of the
\* invocation r: at a unit, at the checkpoint of a company whose job titles
\* are done, or after the last company
Position(r, c, t) ==
  IF c > r.companies THEN [r EXCEPT !.st = "finish"]
  ELSE IF t > r.titles THEN [r EXCEPT !.st = "checkpoint", !.company = c]
  ELSE [r EXCEPT !.st = "unit", !.company = c, !.title = t]

NoParked == [run |-> NoRun, pc |-> "idle", nav |-> "none", call |-> NoCall]

InitRun ==
  /\ run = NoRun
  /\ parked = NoParked
  /\ isRunning = FALSE
  /\ calls = 0

\* lines 74-93: ensureLoggedIn, the companies of the segment (those to scrape
\* are kept) and the job titles are fetched; when one of them fails the
\* catch of line 214 closes the shared browser and throws
Run_Start(entry) ==
  /\ run.st = "none"
  /\ pc = "idle"
  /\ \E setupOk \in BOOLEAN, nc \in {0, NumCompanies}, nt \in {0, NumTitles} :
       IF setupOk
       THEN /\ run' = Position([NoRun EXCEPT !.entry = entry, !.companies = nc,
                                              !.titles = nt], 1, 1)
            /\ UNCHANGED <<sharedBrowser, searchCount, openContexts>>
       ELSE LET c == closeSharedBrowser(sharedBrowser, searchCount, openContexts) IN
            /\ run' = [NoRun EXCEPT !.entry = entry, !.st = "ended", !.result = "thrown"]
            /\ sharedBrowser' = c.shared
            /\ searchCount' = c.count
            /\ openContexts' = c.open
  /\ last' = Passed
  /\ UNCHANGED <<now, rateLimitState, file, streak, pc, nav, call, issued, recorded,
                 issuedDay>>

\* line 105: searchPeople is called for the unit and awaited
Run_Search ==
  /\ run.st = "unit"
  /\ SP_CanMakeRequest
  /\ run' = [run EXCEPT !.st = "searching"]

\* a variant that takes every error of searchPeople as one to log and pass over
classify_skipAll(c) ==
  IF c.result = "thrown" THEN "skip" ELSE "handoff"

\* lines 106-146: what startScraping makes of the end of the call c of
\* searchPeople.  The messages: 'Daily view limit reached (n/m)' is thrown on
\* a denial for daily_limit and matches line 109; 'Rate limit backoff
\* active...', the errors of getSharedBrowser, '403 Forbidden...', '429 Rate
\* Limit...' and 'CLOUDFLARE_DETECTED...' match none of lines 108-130 and are
\* thrown again at line 144, to the catch of line 185
classify(c) ==
  IF c.result = "thrown"
  THEN CASE c.error = "daily_limit" -> "dailyLimit"
         [] c.error = "VERIFICATION_REQUIRED" -> "verification"
         [] c.error = "CAPTCHA_REQUIRED" -> "captcha"
         [] OTHER -> "skip"
  ELSE "handoff"

\* The position after the unit of r: the next job title, or the checkpoint
\* of the company after its last job title (lines 98 and 193)
Advance(r, did) ==
  Position([r EXCEPT !.did = did, !.skipped = @ \/ did = "skip"], r.company, r.title + 1)

\* lines 106-190, taken when awaited holds: the result of searchPeople is
\* filtered and handed off person by person (158-184), or the error is
\* logged and the unit passed over (185-190), or the run returns (119-156)
HandleWhen(awaited) ==
  /\ run.st = "searching"
  /\ awaited
  /\ LET d == classify(call) IN
       CASE d = "dailyLimit" ->
              LET c == closeSharedBrowser(sharedBrowser, searchCount, openContexts) IN
              /\ run' = [run EXCEPT !.st = "ended", !.did = "halt",
                                    !.result = "dailyLimitReached"]
              /\ sharedBrowser' = c.shared
              /\ searchCount' = c.count
              /\ openContexts' = c.open
         [] d = "verification" ->
              /\ run' = [run EXCEPT !.st = "ended", !.did = "halt",
                                    !.result = "requiresVerification"]
              /\ UNCHANGED <<sharedBrowser, searchCount, openContexts>>
         [] d = "captcha" ->
              /\ run' = [run EXCEPT !.st = "ended", !.did = "halt",
                                    !.result = "requiresCaptcha"]
              /\ UNCHANGED <<sharedBrowser, searchCount, openContexts>>
         [] d \in {"skip", "handoff"} ->
              /\ run' = Advance(run, d)
              /\ UNCHANGED <<sharedBrowser, searchCount, openContexts>>
  /\ last' = Passed
  /\ UNCHANGED <<now, rateLimitState, file, streak, pc, nav, call, issued, recorded,
                 issuedDay>>

\* a variant that does not await searchPeople
Run_Handle_noAwait == HandleWhen(TRUE)

\* the await of line 105 has ended
Run_Handle == HandleWhen(pc = "idle")

\* lines 193-204: updateLastScrape for the company, then the next company
Run_Checkpoint ==
  /\ run.st = "checkpoint"
  /\ run' = Position([run EXCEPT !.checkpoints = @ \cup {run.company},
                                    !.did = "checkpoint", !.skipped = FALSE],
                      run.company + 1, 1)
  /\ last' = Passed
  /\ UNCHANGED <<now, rateLimitState, file, streak>>
  /\ UNCHANGED searchVars

\* a variant that returns success with the shared browser left open
Run_Finish_open ==
  /\ run.st = "finish"
  /\ run' = [run EXCEPT !.st = "ended", !.did = "finish", !.result = "success"]
  /\ last' = Passed
  /\ UNCHANGED <<now, rateLimitState, file, streak>>
  /\ UNCHANGED searchVars

\* lines 207-213: the shared browser is closed, the run returns success
Run_Finish ==
  /\ run.st = "finish"
  /\ LET c == closeSharedBrowser(sharedBrowser, searchCount, openContexts) IN
       /\ sharedBrowser' = c.shared
       /\ searchCount' = c.count
       /\ openContexts' = c.open
  /\ run' = [run EXCEPT !.st = "ended", !.did = "finish", !.result = "success"]
  /\ last' = Passed
  /\ UNCHANGED <<now, rateLimitState, file, streak, pc, nav, call, issued, recorded,
                 issuedDay>>

\* The process stops, at any point of a call, and is started again
Restart ==
  /\ RestartLedger
  /\ pc' = "idle"
  /\ sharedBrowser' = FALSE
  /\ searchCount' = 0
  /\ nav' = "none"
  /\ call' = NoCall
  /\ issued' = IF ModuleInit(file, now).reset THEN 0 ELSE issued
  /\ recorded' = IF ModuleInit(file, now).reset THEN 0 ELSE recorded
  /\ openContexts' = 0
  /\ run' = NoRun
  /\ parked' = NoParked
  /\ isRunning' = FALSE
  /\ calls' = 0
  /\ UNCHANGED issuedDay
  /\ UNCHANGED unitVars

TickStep == Tick /\ UNCHANGED searchVars /\ UNCHANGED runVars /\ UNCHANGED unitVars

\* No function of a unit's step is being applied
NoInput == [of |-> "none"]
NoOutput == [of |-> "none"]

InitUnit == input = NoInput /\ output = NoOutput

Init == InitLedger /\ InitSearch /\ InitRun /\ InitUnit

\* searchPeople under any caller that makes one call at a time
Next ==
  \/ TickStep
  \/ SP_CanMakeRequest /\ UNCHANGED runVars /\ UNCHANGED unitVars
  \/ SP_GetSharedBrowser /\ UNCHANGED runVars /\ UNCHANGED unitVars
  \/ SP_Navigate /\ UNCHANGED runVars /\ UNCHANGED unitVars
  \/ SP_Respond /\ UNCHANGED runVars /\ UNCHANGED unitVars
  \/ Restart

Spec == Init /\ [][Next]_vars

\* The ledger under any sequence of calls of its exported operations
NextLedger ==
  \/ TickStep
  \/ CanMakeRequest /\ UNCHANGED searchVars /\ UNCHANGED runVars /\ UNCHANGED unitVars
  \/ RecordView /\ UNCHANGED searchVars /\ UNCHANGED runVars /\ UNCHANGED unitVars
  \/ HandleRateLimitError /\ UNCHANGED searchVars /\ UNCHANGED runVars /\ UNCHANGED unitVars
  \/ HandleForbiddenError /\ UNCHANGED searchVars /\ UNCHANGED runVars /\ UNCHANGED unitVars
  \/ GetStatus /\ UNCHANGED searchVars /\ UNCHANGED runVars /\ UNCHANGED unitVars
  \/ RestartLedger /\ UNCHANGED searchVars /\ UNCHANGED runVars /\ UNCHANGED unitVars

LedgerSpec == Init /\ [][NextLedger]_vars

\* The run of the app.listen callback has been started in this process
AutoStarted == run.entry = "auto" \/ parked.run.entry = "auto"

\* part_006:206-256: when the server begins to listen it calls
\* scrapeService.startScraping(); scrapingStatus is not consulted or set
AutoRun ==
  /\ ~AutoStarted
  /\ Run_Start("auto")
  /\ UNCHANGED <<parked, isRunning, calls>> /\ UNCHANGED unitVars

\* scrapeController.js:10-19 and 44, POST /start on the listening server: with
\* isRunning set the request is refused (400); otherwise isRunning is set and
\* startScraping is called and not awaited
PostStart ==
  /\ AutoStarted
  /\ ~isRunning
  /\ isRunning' = TRUE
  /\ Run_Start("post")
  /\ UNCHANGED <<parked, calls>>
  /\ UNCHANGED unitVars

\* scrapeController.js:20-41: the run started by POST /start has returned or
\* thrown, isRunning is cleared
PostDone ==
  /\ run.entry = "post"
  /\ run.st = "ended"
  /\ isRunning' = FALSE
  /\ run' = NoRun
  /\ last' = Passed
  /\ UNCHANGED <<now, rateLimitState, file, streak, parked, calls>>
  /\ UNCHANGED searchVars
  /\ UNCHANGED unitVars

\* line 105 in a run of the server
ServerSearch ==
  /\ calls < MaxCalls
  /\ calls' = calls + 1
  /\ Run_Search
  /\ UNCHANGED <<parked, isRunning>>
  /\ UNCHANGED unitVars

\* The event loop goes on with the other invocation: each step of an
\* invocation ends at an await, where the other one may be resumed
Switch ==
  /\ run.st # "none" \/ parked.run.st # "none"
  /\ run' = parked.run
  /\ pc' = parked.pc
  /\ nav' = parked.nav
  /\ call' = parked.call
  /\ parked' = [run |-> run, pc |-> pc, nav |-> nav, call |-> call]
  /\ last' = Passed
  /\ UNCHANGED <<now, rateLimitState, file, streak, isRunning, calls>>
  /\ UNCHANGED <<sharedBrowser, searchCount, issued, recorded, issuedDay, openContexts>>
  /\ UNCHANGED unitVars

\* One run of startScraping in one process, from the start of the process
NextRun ==
  \/ TickStep
  \/ AutoRun
  \/ Run_Search /\ UNCHANGED <<parked, isRunning, calls>> /\ UNCHANGED unitVars
  \/ SP_GetSharedBrowser /\ UNCHANGED runVars /\ UNCHANGED unitVars
  \/ SP_Navigate /\ UNCHANGED runVars /\ UNCHANGED unitVars
  \/ SP_Respond /\ UNCHANGED runVars /\ UNCHANGED unitVars
  \/ Run_Handle /\ UNCHANGED <<parked, isRunning, calls>> /\ UNCHANGED unitVars
  \/ Run_Checkpoint /\ UNCHANGED <<parked, isRunning, calls>> /\ UNCHANGED unitVars
  \/ Run_Finish /\ UNCHANGED <<parked, isRunning, calls>> /\ UNCHANGED unitVars

RunSpec == Init /\ [][NextRun]_vars

\* The server process: the run of the app.listen callback and the runs
\* started by POST /start, within one reading of the clock, up to the
\* MaxCalls-th call of searchPeople
NextServer ==
  \/ AutoRun
  \/ PostStart
  \/ PostDone
  \/ Switch
  \/ ServerSearch
  \/ SP_GetSharedBrowser /\ UNCHANGED runVars /\ UNCHANGED unitVars
  \/ SP_Navigate /\ UNCHANGED runVars /\ UNCHANGED unitVars
  \/ SP_Respond /\ UNCHANGED runVars /\ UNCHANGED unitVars
  \/ Run_Handle /\ UNCHANGED <<parked, isRunning, calls>> /\ UNCHANGED unitVars
  \/ Run_Checkpoint /\ UNCHANGED <<parked, isRunning, calls>> /\ UNCHANGED unitVars
  \/ Run_Finish /\ UNCHANGED <<parked, isRunning, calls>> /\ UNCHANGED unitVars

ServerSpec == Init /\ [][NextServer]_vars

\* ------------------------------------------------ extraction of a page
\* (src/services/dataExtractionService.js, linkedinService.js:1140-1148)
SeqsUpTo(S, n) == UNION {[1..k -> S] : k \in 0..n}

Profiles == 1..NumProfiles

\* A link a[href*="/in/"] of the page: the profile it points to, its href as
\* written (relative, '/in/x', or absolute, 'https://www.linkedin.com/in/x')
\* and where it stands: in a list item of the results, with the lines of a
\* name and a title ("card"), or outside every list item, its text a name
\* ("loose")
Anchors == [profile : Profiles, form : {"relative", "absolute"}, place : {"card", "loose"}]

\* A rendered page: its profile links in document order, the profile urls of
\* its JSON-LD Person records in document order, and whether its content
\* can be read (page.content() and page.evaluate() resolve)
Pages ==
  [anchors : SeqsUpTo(Anchors, MaxAnchors),
   records : SeqsUpTo(Profiles, MaxRecords),
   readable : BOOLEAN]

\* $link.attr('href'): the href as written
href(a) == [profile |-> a.profile, form |-> a.form]

\* lines 368-370, and link.href of line 541: a relative href is completed
\* with 'https://www.linkedin.com', an absolute one is kept
fullUrl(h) == [h EXCEPT !.form = "absolute"]

\* lines 372-379 and 656-662: the candidate made from the i-th link; the
\* objects have the fields name, profileUrl, title, location, company (and
\* rawText), and no field extractionSource
Candidate(a, i) == [profileUrl |-> fullUrl(href(a)), anchor |-> i, place |-> a.place]

\* lines 11-60: the Person records of the JSON-LD scripts, every one of
\* them, or null; only extractProfileData (line 181) calls it
extractJSONLD(page) ==
  IF Len(page.records) = 0 THEN NULL
  ELSE [i \in 1..Len(page.records) |->
          [type |-> "Person", url |-> [profile |-> page.records[i], form |-> "absolute"]]]

\* lines 233-390: the links are visited in document order; one whose href
\* as written is in seenUrls, or that has no list item around it (line 244),
\* is passed over, the others are added to seenUrls and pushed
RECURSIVE eachProfileLink(_, _, _, _)
eachProfileLink(anchors, i, seenUrls, people) ==
  IF i > Len(anchors) THEN people
  ELSE LET a == anchors[i] IN
       IF href(a) \in seenUrls \/ a.place # "card"
       THEN eachProfileLink(anchors, i + 1, seenUrls, people)
       ELSE eachProfileLink(anchors, i + 1, seenUrls \cup {href(a)},
                            Append(people, Candidate(a, i)))

\* lines 216-399, exported as extractSearchResults: an error gives []
extractSearchResultsWithCheerio(page) ==
  IF page.readable THEN eachProfileLink(page.anchors, 1, {}, <<>>) ELSE <<>>

\* lines 694-702: the first person of each profileUrl is kept
RECURSIVE uniquePeople(_, _, _, _)
uniquePeople(people, i, seenUrls, unique) ==
  IF i > Len(people) THEN unique
  ELSE IF people[i].profileUrl \in seenUrls
       THEN uniquePeople(people, i + 1, seenUrls, unique)
       ELSE uniquePeople(people, i + 1, seenUrls \cup {people[i].profileUrl},
                         Append(unique, people[i]))

\* lines 404-712, exported as extractSearchResultsFallback: in the browser
\* every profile link with a name gives a person whose profileUrl is
\* link.href, the absolute url; an error gives []
extractSearchResults(page) ==
  IF page.readable
  THEN uniquePeople([i \in 1..Len(page.anchors) |-> Candidate(page.anchors[i], i)],
                    1, {}, <<>>)
  ELSE <<>>

\* a variant that appends the result of the fallback to that of the primary
searchResults_merged(page) ==
  LET primary == extractSearchResultsWithCheerio(page) IN
    [primary |-> primary, fallback |-> TRUE,
     results |-> primary \o extractSearchResults(page)]

\* linkedinService.js:1140-1148: the primary extractor, and the fallback when
\* the primary returned nothing
searchResults(page) ==
  LET primary == extractSearchResultsWithCheerio(page) IN
    IF Len(primary) = 0
    THEN [primary |-> primary, fallback |-> TRUE, results |-> extractSearchResults(page)]
    ELSE [primary |-> primary, fallback |-> FALSE, results |-> primary]

\* One extraction of the page
Extract ==
  /\ input.of = "page"
  /\ output' = [of |-> "page"] @@ searchResults(input.page)
  /\ UNCHANGED input
  /\ UNCHANGED <<ledgerVars, searchVars, runVars>>

InitExtract ==
  /\ InitLedger /\ InitSearch /\ InitRun
  /\ \E page \in Pages : input = [of |-> "page", page |-> page]
  /\ output = NoOutput

\* The extraction of searchPeople on any page
ExtractSpec == InitExtract /\ [][Extract]_vars

\* ------------------------------------------------------- filterResults
\* (src/services/scrapeService.js:16-72).  A string is the sequence of its
\* characters
LowerCase == <<"a", "b", "c", "d", "e", "f", "g", "h", "i", "j", "k", "l", "m", "n", "o", "p", "q", "r", "s", "t", "u", "v", "w", "x", "y", "z">>
UpperCase == <<"A", "B", "C", "D", "E", "F", "G", "H", "I", "J", "K", "L", "M", "N", "O", "P", "Q", "R", "S", "T", "U", "V", "W", "X", "Y", "Z">>
Digits == {"0", "1", "2", "3", "4", "5", "6", "7", "8", "9"}

\* String.prototype.toLowerCase, on the characters of the texts used here
toLowerCase(s) ==
  [i \in 1..Len(s) |->
     IF \E k \in 1..26 : UpperCase[k] = s[i]
     THEN LowerCase[CHOOSE k \in 1..26 : UpperCase[k] = s[i]]
     ELSE s[i]]

\* the classes \w and \s of the regular expressions of lines 30-31
isWordChar(c) == (\E k \in 1..26 : LowerCase[k] = c \/ UpperCase[k] = c) \/ c \in Digits \/ c = "_"
isSpace(c) == c = " "

\* lines 29-30: replace(/\|/g, ' ') and replace(/[^\w\s]/g, ' ')
replaceSpecial(s) == [i \in 1..Len(s) |-> IF isWordChar(s[i]) \/ isSpace(s[i]) THEN s[i] ELSE " "]

\* line 31: replace(/\s+/g, ' ')
RECURSIVE collapseSpaces(_)
collapseSpaces(s) ==
  IF Len(s) < 2 THEN s
  ELSE IF isSpace(s[1]) /\ isSpace(s[2]) THEN collapseSpaces(Tail(s))
       ELSE <<s[1]>> \o collapseSpaces(Tail(s))

\* line 32: String.prototype.trim
RECURSIVE trim(_)
trim(s) ==
  IF Len(s) = 0 THEN s
  ELSE IF isSpace(s[1]) THEN trim(Tail(s))
       ELSE IF isSpace(s[Len(s)]) THEN trim(SubSeq(s, 1, Len(s) - 1))
            ELSE s

\* lines 26-33
normalizeTitle(title) == trim(collapseSpaces(replaceSpecial(toLowerCase(title))))

\* split(' '), and split(/\s+/) on a normalized string: the pieces between
\* the spaces; the empty string gives one empty piece
RECURSIVE split(_)
split(s) ==
  IF \A i \in 1..Len(s) : ~isSpace(s[i]) THEN <<s>>
  ELSE LET i == CHOOSE k \in 1..Len(s) : isSpace(s[k]) /\ \A j \in 1..(k - 1) : ~isSpace(s[j])
       IN <<SubSeq(s, 1, i - 1)>> \o split(SubSeq(s, i + 1, Len(s)))

\* String.prototype.startsWith and String.prototype.includes
startsWith(s, prefix) == Len(prefix) <= Len(s) /\ SubSeq(s, 1, Len(prefix)) = prefix
includes(s, part) == \E i \in 0..(Len(s) - Len(part)) : SubSeq(s, i + 1, i + Len(part)) = part

\* line 39
stopWords ==
  {<<"d", "e">>, <<"d", "e", "l">>, <<"l", "a">>, <<"e", "l">>, <<"e", "n">>, <<"y">>, <<"o">>, <<"a">>, <<"a", "l">>,
   <<"l", "o", "s">>, <<"l", "a", "s">>, <<"u", "n">>, <<"u", "n", "a">>, <<"c", "o", "n">>, <<"p", "o", "r">>, <<"p", "a", "r", "a">>}

\* lines 40-42: the words of the normalized job title that count
jobTitleWords(normalizedSearchTitle) ==
  SelectSeq(split(normalizedSearchTitle), LAMBDA w : Len(w) > 2 /\ w \notin stopWords)

\* lines 52-54: the word is part of the title, or the beginning of a word of
\* the title, or a word of the title is the beginning of it
wordMatches(normalizedPersonTitle, word) ==
  \/ includes(normalizedPersonTitle, word)
  \/ \E k \in 1..Len(split(normalizedPersonTitle)) :
        LET t == split(normalizedPersonTitle)[k]
        IN startsWith(t, word) \/ startsWith(word, t)

\* lines 45-69; matchRatio >= 0.5 is 2 * matching >= length,
\* Math.ceil(length * 0.5) is Ceil(length, 2), and split('|')[0] of line 64
\* is the whole normalized title, which holds no '|' after line 29
titleMatch(personTitle, jobTitle) ==
  LET normalizedPersonTitle == normalizeTitle(toLowerCase(personTitle))
      normalizedSearchTitle == normalizeTitle(toLowerCase(jobTitle))
      words == jobTitleWords(normalizedSearchTitle)
      matchingWords == SelectSeq(words, LAMBDA w : wordMatches(normalizedPersonTitle, w))
      minMatches == IF Ceil(Len(words), 2) > 1 THEN Ceil(Len(words), 2) ELSE 1
  IN IF Len(words) > 0
     THEN \/ Len(matchingWords) >= minMatches
          \/ 2 * Len(matchingWords) >= Len(words)
          \/ includes(normalizedPersonTitle, normalizedSearchTitle)
          \/ includes(normalizedSearchTitle, trim(normalizedPersonTitle))
     ELSE \/ includes(normalizedPersonTitle, normalizedSearchTitle)
          \/ includes(normalizedSearchTitle, normalizedPersonTitle)

\* lines 16-72: a person without a title or without a profileUrl is dropped
\* (lines 18-20), the others are kept when titleMatch holds; companyName and
\* person.company are not read
filterResults(results, companyName, jobTitle) ==
  SelectSeq(results, LAMBDA person :
     IF Len(person.title) = 0 \/ Len(person.profileUrl) = 0
     THEN FALSE
     ELSE titleMatch(person.title, jobTitle))

\* The words the texts of the fixtures are made of
Words == {<<"M", "a", "r", "k", "e", "t", "i", "n", "g">>, <<"M", "a", "n", "a", "g", "e", "r">>, <<"M">>, <<"d", "e">>}

\* The texts of k words of Words joined by separators of seps
RECURSIVE WordTexts(_, _)
WordTexts(k, seps) ==
  IF k = 0 THEN {<<>>}
  ELSE IF k = 1 THEN Words
       ELSE {t \o sep \o w : t \in WordTexts(k - 1, seps), sep \in seps, w \in Words}

SeniorMarketingManager == <<"S", "e", "n", "i", "o", "r", " ", "M", "a", "r", "k", "e", "t", "i", "n", "g", " ", "M", "a", "n", "a", "g", "e", "r">>
SoftwareEngineer == <<"S", "o", "f", "t", "w", "a", "r", "e", " ", "E", "n", "g", "i", "n", "e", "e", "r">>
MAAnalyst == <<"M", "&", "A", " ", "A", "n", "a", "l", "y", "s", "t">>

\* person.title as the extractors give it: '' when no title line was found
PersonTitles ==
  {SeniorMarketingManager, SoftwareEngineer, MAAnalyst}
    \cup UNION {WordTexts(k, {<<" ">>, <<"&">>}) : k \in 0..MaxTitleWords}

\* jobTitle.title of a job title of the list
JobTitles == UNION {WordTexts(k, {<<" ">>}) : k \in 1..MaxRoleWords}

AcmeHotels == <<"A", "c", "m", "e", " ", "H", "o", "t", "e", "l", "s">>
Globex == <<"G", "l", "o", "b", "e", "x">>
ProfileUrl == <<"h", "t", "t", "p", "s", ":", "/", "/", "w", "w", "w", ".", "l", "i", "n", "k", "e", "d", "i", "n", ".", "c", "o", "m", "/", "i", "n", "/", "a", "n", "a">>

\* A person as extracted: profileUrl '' stands for a missing one, company ''
\* for no employer text
People == [title : PersonTitles, profileUrl : {<<>>, ProfileUrl},
           company : {<<>>, AcmeHotels, Globex}]

\* scrapeService.js:159
Filter ==
  /\ input.of = "results"
  /\ output' = [of |-> "results",
                filtered |-> filterResults(input.results, input.companyName, input.jobTitle)]
  /\ UNCHANGED input
  /\ UNCHANGED <<ledgerVars, searchVars, runVars>>

InitFilter ==
  /\ InitLedger /\ InitSearch /\ InitRun
  /\ \E person \in People, jobTitle \in JobTitles :
       input = [of |-> "results", results |-> <<person>>,
                companyName |-> AcmeHotels, jobTitle |-> jobTitle]
  /\ output = NoOutput

\* filterResults on any extracted person and job title
FilterSpec == InitFilter /\ [][Filter]_vars

\* ------------------------------------------------------------------ hand-off
\* The hand-off of the filtered results of one unit (scrapeService.js:160-179)
\* to the ClickUp list.  input holds filteredResults (the profile of each
\* person: the results of the extraction can hold one profile twice) and the
\* profiles whose task the list held before; output holds the person the
\* loop is at (i), its position (pc), the profiles with a task in the list
\* (tasks) and, for each person, what checkPersonExists returned (exists),
\* the calls of createPersonTask made (creates) and the line logged (logged).
Filtered == SeqsUpTo(Profiles, MaxFiltered)

\* part_003:86-129: true when the description of a task of the list holds
\* personUrl; false when none does and when the request fails (line 124)
checkPersonExists(tasks, personUrl) ==
  IF personUrl \in tasks THEN {TRUE, FALSE} ELSE {FALSE}

\* part_003:34-84: the task is created, or the request fails and the
\* function throws
createPersonTask == {"created", "thrown"}

\* line 160: the loop is at person i, or past the last one
atPerson(o, i) ==
  [o EXCEPT !.i = i, !.pc = IF i > Len(input.filteredResults) THEN "done" ELSE "check"]

\* line 162
Handoff_Check ==
  /\ input.of = "handoff"
  /\ output.pc = "check"
  /\ \E exists \in checkPersonExists(output.tasks, input.filteredResults[output.i]) :
       output' = [output EXCEPT !.exists[output.i] = IF exists THEN "true" ELSE "false",
                                !.pc = IF exists THEN "exists" ELSE "create"]
  /\ UNCHANGED input
  /\ UNCHANGED <<ledgerVars, searchVars, runVars>>

\* lines 164-166 and the catch of lines 170-172
Handoff_Create ==
  /\ input.of = "handoff"
  /\ output.pc = "create"
  /\ \E outcome \in createPersonTask :
       output' = [output EXCEPT
                    !.creates[output.i] = @ + 1,
                    !.tasks = IF outcome = "created"
                              THEN @ \cup {input.filteredResults[output.i]} ELSE @,
                    !.logged[output.i] = IF outcome = "created" THEN "saved" ELSE "error",
                    !.pc = "delay"]
  /\ UNCHANGED input
  /\ UNCHANGED <<ledgerVars, searchVars, runVars>>

\* lines 167-169
Handoff_Exists ==
  /\ input.of = "handoff"
  /\ output.pc = "exists"
  /\ output' = [output EXCEPT !.logged[output.i] = "exists", !.pc = "delay"]
  /\ UNCHANGED input
  /\ UNCHANGED <<ledgerVars, searchVars, runVars>>

\* lines 174-176: the delay of one second, then the next person
Handoff_Delay ==
  /\ input.of = "handoff"
  /\ output.pc = "delay"
  /\ output' = atPerson(output, output.i + 1)
  /\ UNCHANGED input
  /\ UNCHANGED <<ledgerVars, searchVars, runVars>>

InitHandoff ==
  /\ InitLedger /\ InitSearch /\ InitRun
  /\ \E filteredResults \in Filtered, tasks \in SUBSET Profiles :
       /\ input = [of |-> "handoff", filteredResults |-> filteredResults, tasks |-> tasks]
       /\ output = atPerson([of |-> "handoff", i |-> 1, pc |-> "check", tasks |-> tasks,
                             exists |-> [k \in 1..Len(filteredResults) |-> "none"],
                             creates |-> [k \in 1..Len(filteredResults) |-> 0],
                             logged |-> [k \in 1..Len(filteredResults) |-> "none"]], 1)

HandoffNext ==
  \/ Handoff_Check
  \/ Handoff_Create
  \/ Handoff_Exists
  \/ Handoff_Delay

\* the hand-off of any filtered results to any list
HandoffSpec == InitHandoff /\ [][HandoffNext]_vars

\* ----------------------------------------------------------------- staleness
\* The selection of the companies to scrape (scrapeService.js:84-93) and the
\* date written back for a company (hubspotService.js:144-181), followed over
\* the days.  A Date is the number of its day, counted from 1 January of a
\* year 0 of 365 days, in a process whose local time is UTC; the value of
\* last_linkedin_scrape is the string 'YYYY-MM-DD', held as the record of
\* its year, month (1..12) and day.
NoDate == [year |-> 0, month |-> 0, day |-> 0]

MonthDays == <<31, 28, 31, 30, 31, 30, 31, 31, 30, 31, 30, 31>>

RECURSIVE DaysBefore(_)
\* the days of a year before its month m (0..11, as getMonth counts)
DaysBefore(m) == IF m = 0 THEN 0 ELSE DaysBefore(m - 1) + MonthDays[m]

getFullYear(date) == date \div 365

getMonth(date) ==
  CHOOSE m \in 0..11 : /\ DaysBefore(m) <= (date % 365)
                       /\ (date % 365) < DaysBefore(m) + MonthDays[m + 1]

getDate(date) == (date % 365) - DaysBefore(getMonth(date)) + 1

\* new Date(year, monthIndex, day): a month index outside 0..11 carries into
\* the year, and a day past the end of the month carries into the months
\* after it
NewDate(year, monthIndex, day) ==
  (year + (monthIndex \div 12)) * 365 + DaysBefore(monthIndex % 12) + day - 1

\* hubspotService.js:149-150: toISOString().split('T')[0]
dateValue(date) ==
  [year |-> getFullYear(date), month |-> getMonth(date) + 1, day |-> getDate(date)]

\* new Date('YYYY-MM-DD') of line 188
parseDate(s) == NewDate(s.year, s.month - 1, s.day)

\* hubspotService.js:190
threeMonthsAgo(today) == NewDate(getFullYear(today), getMonth(today) - 3, getDate(today))

\* hubspotService.js:183-193
shouldScrapeCompany(lastScrapeDate, today) ==
  IF lastScrapeDate = NoDate THEN TRUE
  ELSE parseDate(lastScrapeDate) < threeMonthsAgo(today)

\* a day passes
Stale_Day ==
  /\ input.of = "company"
  /\ output.today < MaxDay
  /\ output' = [output EXCEPT !.today = @ + 1]
  /\ UNCHANGED input
  /\ UNCHANGED <<ledgerVars, searchVars, runVars>>

\* scrapeService.js:84-93: a run starts, reads the company and keeps it among
\* companiesToScrape or not
Stale_Select ==
  /\ input.of = "company"
  /\ output.st = "idle"
  /\ LET selected == shouldScrapeCompany(output.lastLinkedinScrape, output.today) IN
       output' = [output EXCEPT !.st = IF selected THEN "selected" ELSE "idle",
                                !.selected = selected]
  /\ UNCHANGED input
  /\ UNCHANGED <<ledgerVars, searchVars, runVars>>

\* scrapeService.js:95-199: the units of the company are searched and
\* updateLastScrape writes the date of the day, or fails and the run logs it
Stale_Checkpoint ==
  /\ input.of = "company"
  /\ output.st = "selected"
  /\ \E updated \in BOOLEAN :
       output' = [output EXCEPT
                    !.st = "idle",
                    !.lastLinkedinScrape = IF updated THEN dateValue(output.today) ELSE @]
  /\ UNCHANGED input
  /\ UNCHANGED <<ledgerVars, searchVars, runVars>>

InitStale ==
  /\ InitLedger /\ InitSearch /\ InitRun
  /\ input = [of |-> "company", lastLinkedinScrape |-> NoDate]
  /\ output = [of |-> "company", st |-> "idle", today |-> FirstDay,
               lastLinkedinScrape |-> NoDate, selected |-> FALSE]

StaleNext ==
  \/ Stale_Day
  \/ Stale_Select
  \/ Stale_Checkpoint

\* one company under any sequence of runs over the days
StaleSpec == InitStale /\ [][StaleNext]_vars

\* ------------------------------------------------------------ LinkedInScraper
\* One call of LinkedInScraper.scrape (src/src/linkedin-scraper.js:365-466)
\* with valid profile URLs on a new scraper.  input holds the number of URLs
\* and config.dailyLimit; output holds the position of the call (pc), the
\* URL the loop is at (i), the navigations made (visited), the response of
\* the last one, the error being handled, dailyViewCount, the number of
\* results, the backoff waits of handleRateLimit made (waits), the
\* navigations made when a 429 was first answered (limitedAt, 0 before),
\* whether the browser is open, whether an error leaves the loop (throwing)
\* and how the promise of scrape settled.
\* lines 311-337: the wait of 30 minutes, then the error is thrown again
handleRateLimit(o) == [o EXCEPT !.waits = @ + 1]

\* lines 444-452: the messages '403 Forbidden' and '429 Too Many Requests'
\* thrown by the handlers of lines 413-421 match as well
catchHandles(o) == o.error \in {"403", "429"}

\* line 394: the loop is at URL i or past the last one
atUrl(o, i) ==
  [o EXCEPT !.i = i, !.pc = IF i > input.urls THEN "finally" ELSE "url",
            !.error = "none"]

\* lines 386-391: initBrowser and loadCookie; a failure of either is thrown
\* to the finally block, with the browser launched or not
LS_Init ==
  /\ input.of = "scrape"
  /\ output.pc = "start"
  /\ \E launched \in BOOLEAN, ok \in BOOLEAN :
       output' = IF launched /\ ok
                 THEN atUrl([output EXCEPT !.browser = TRUE], 1)
                 ELSE [output EXCEPT !.browser = launched, !.throwing = TRUE,
                                     !.pc = "finally"]
  /\ UNCHANGED input
  /\ UNCHANGED <<ledgerVars, searchVars, runVars>>

\* lines 398-410: _checkDailyLimit, then the navigation to the profile
LS_Goto ==
  /\ input.of = "scrape"
  /\ output.pc = "url"
  /\ IF output.dailyViewCount >= input.dailyLimit
     THEN output' = [output EXCEPT !.error = "daily_limit", !.pc = "catch"]
     ELSE \E response \in {"200", "403", "429", "timeout"} :
            output' = [output EXCEPT
                         !.visited = @ + 1,
                         !.response = response,
                         !.limitedAt = IF response = "429" /\ @ = 0
                                       THEN output.visited + 1 ELSE @,
                         !.error = IF response = "timeout" THEN "timeout" ELSE "none",
                         !.pc = IF response = "timeout" THEN "catch" ELSE "status"]
  /\ UNCHANGED input
  /\ UNCHANGED <<ledgerVars, searchVars, runVars>>

\* lines 412-438: the status of the response; the two handlers throw inside
\* the try block, a profile is extracted and counted
LS_Status ==
  /\ input.of = "scrape"
  /\ output.pc = "status"
  /\ output' =
       CASE output.response = "403" -> [output EXCEPT !.error = "403", !.pc = "catch"]
         [] output.response = "429" ->
              [handleRateLimit(output) EXCEPT !.error = "429", !.pc = "catch"]
         [] OTHER ->
              atUrl([output EXCEPT !.dailyViewCount = @ + 1, !.results = @ + 1],
                    output.i + 1)
  /\ UNCHANGED input
  /\ UNCHANGED <<ledgerVars, searchVars, runVars>>

\* lines 440-456: the catch of the loop body
LS_Catch ==
  /\ input.of = "scrape"
  /\ output.pc = "catch"
  /\ output' =
       IF catchHandles(output)
       THEN [(IF output.error = "429" THEN handleRateLimit(output) ELSE output)
               EXCEPT !.throwing = TRUE, !.pc = "finally"]
       ELSE atUrl([output EXCEPT !.results = @ + 1], output.i + 1)
  /\ UNCHANGED input
  /\ UNCHANGED <<ledgerVars, searchVars, runVars>>

\* lines 459-466: the browser is closed, then scrape settles
LS_Finally ==
  /\ input.of = "scrape"
  /\ output.pc = "finally"
  /\ output' = [output EXCEPT !.browser = FALSE, !.pc = "settled",
                              !.settled = IF output.throwing THEN "rejected" ELSE "resolved"]
  /\ UNCHANGED input
  /\ UNCHANGED <<ledgerVars, searchVars, runVars>>

InitScrape ==
  /\ InitLedger /\ InitSearch /\ InitRun
  /\ \E urls \in 1..MaxUrls, dailyLimit \in 1..MaxUrls :
       input = [of |-> "scrape", urls |-> urls, dailyLimit |-> dailyLimit]
  /\ output = [of |-> "scrape", pc |-> "start", i |-> 0, visited |-> 0,
               response |-> "none", error |-> "none", dailyViewCount |-> 0,
               results |-> 0, waits |-> 0, limitedAt |-> 0, browser |-> FALSE,
               throwing |-> FALSE, settled |-> "none"]

ScrapeNext ==
  \/ LS_Init
  \/ LS_Goto
  \/ LS_Status
  \/ LS_Catch
  \/ LS_Finally

\* LinkedInScraper.scrape on any list of URLs under any responses
ScrapeSpec == InitScrape /\ [][ScrapeNext]_vars

\* ------------------------------------------------------------------ run guards
\* The guard of POST /start (scrapeController.js:3-59) in the server process
\* and the guard of checkAndScrapeCompanies (scripts/scheduler.js:8-114) in
\* the scheduler process, each with the runs it launches.  output.ctl and
\* output.sch hold, for each launcher, its flag (isRunning), where the run it
\* launched stands (run), how many runs it launched are in progress (live),
\* how many requests or cron ticks it has had (asked), how many of them it
\* refused or skipped (refused), how many runs it launched (started) and how
\* the last run ended (outcome).
NoLauncher ==
  [isRunning |-> FALSE, run |-> "none", live |-> 0, asked |-> 0, refused |-> 0,
   started |-> 0, outcome |-> "none"]

\* a variant that launches a run whatever the flag says
Ctl_Post_noGuard ==
  /\ input.of = "guards"
  /\ output.ctl.asked < MaxPosts
  /\ output' = [output EXCEPT !.ctl.asked = @ + 1, !.ctl.isRunning = TRUE,
                              !.ctl.run = "running", !.ctl.live = @ + 1,
                              !.ctl.started = @ + 1]
  /\ UNCHANGED input
  /\ UNCHANGED <<ledgerVars, searchVars, runVars>>

\* scrapeController.js:10-44: with the flag set the request is answered 400;
\* otherwise the flag is set, startScraping is called and not awaited, and
\* the request is answered
Ctl_Post ==
  /\ input.of = "guards"
  /\ output.ctl.asked < MaxPosts
  /\ output' = IF output.ctl.isRunning
               THEN [output EXCEPT !.ctl.asked = @ + 1, !.ctl.refused = @ + 1]
               ELSE [output EXCEPT !.ctl.asked = @ + 1, !.ctl.isRunning = TRUE,
                                   !.ctl.run = "running", !.ctl.live = @ + 1,
                                   !.ctl.started = @ + 1]
  /\ UNCHANGED input
  /\ UNCHANGED <<ledgerVars, searchVars, runVars>>

\* scrapeController.js:20-41: the run resolves (scrapeService.js:74-226:
\* success, a pause for verification or CAPTCHA, the daily limit) or throws,
\* and the callback of then (either branch) or catch clears the flag
Ctl_Done ==
  /\ input.of = "guards"
  /\ output.ctl.run = "running"
  /\ \E outcome \in {"success", "requiresVerification", "requiresCaptcha",
                     "dailyLimitReached", "thrown"} :
       output' = [output EXCEPT !.ctl.isRunning = FALSE, !.ctl.run = "none",
                                !.ctl.live = @ - 1, !.ctl.outcome = outcome]
  /\ UNCHANGED input
  /\ UNCHANGED <<ledgerVars, searchVars, runVars>>

\* scheduler.js:10-18, called at the start of the script and by cron every
\* hour: with the flag set the tick is skipped; otherwise the flag is set
\* and the run begins with ensureLoggedIn
Sch_Tick ==
  /\ input.of = "guards"
  /\ output.sch.asked < MaxCronTicks
  /\ output' = IF output.sch.isRunning
               THEN [output EXCEPT !.sch.asked = @ + 1, !.sch.refused = @ + 1]
               ELSE [output EXCEPT !.sch.asked = @ + 1, !.sch.isRunning = TRUE,
                                   !.sch.run = "login", !.sch.live = @ + 1,
                                   !.sch.started = @ + 1]
  /\ UNCHANGED input
  /\ UNCHANGED <<ledgerVars, searchVars, runVars>>

\* scheduler.js:20-97: the awaited steps of the run: ensureLoggedIn, the
\* companies of the segment (with none to scrape the function returns), the
\* job titles, the companies one after the other; an error of the first
\* three goes to the catch of line 98
Sch_Step ==
  /\ input.of = "guards"
  /\ output.sch.run \in {"login", "companies", "titles", "scraping"}
  /\ \E ok \in BOOLEAN, more \in BOOLEAN :
       output' =
         [output EXCEPT
            !.sch.run =
              CASE ~ok /\ output.sch.run # "scraping" -> "error"
                [] output.sch.run = "login" -> "companies"
                [] output.sch.run = "companies" ->
                     IF more THEN "titles" ELSE "nothing to scrape"
                [] output.sch.run = "titles" -> "scraping"
                [] OTHER -> IF more THEN "scraping" ELSE "completed"]
  /\ UNCHANGED input
  /\ UNCHANGED <<ledgerVars, searchVars, runVars>>

\* scheduler.js:98-102: however the try block was left, the finally block
\* clears the flag
Sch_Finally ==
  /\ input.of = "guards"
  /\ output.sch.run \in {"completed", "nothing to scrape", "error"}
  /\ output' = [output EXCEPT !.sch.isRunning = FALSE, !.sch.run = "none",
                              !.sch.live = @ - 1, !.sch.outcome = output.sch.run]
  /\ UNCHANGED input
  /\ UNCHANGED <<ledgerVars, searchVars, runVars>>

InitGuards ==
  /\ InitLedger /\ InitSearch /\ InitRun
  /\ input = [of |-> "guards"]
  /\ output = [of |-> "guards", ctl |-> NoLauncher, sch |-> NoLauncher]

GuardsNext ==
  \/ Ctl_Post
  \/ Ctl_Done
  \/ Sch_Tick
  \/ Sch_Step
  \/ Sch_Finally

\* the two launchers under any requests, cron ticks and outcomes of the runs
GuardSpec == InitGuards /\ [][GuardsNext]_vars

\* ---------------------------------------------------------------- the logger
\* One call of logError of the logging layer (scrapeService.js:355-368, the
\* module linkedinService.js requires as loggerService).  input holds the
\* status code it is given; output holds the function that is running (pc),
\* the calls of critical that have not returned (depth), the console lines
\* of critical written (lines), the calls of writeLog (entries) and of
\* sendAlert (alerts) made, and how the call ended.
\* lines 355-368: the error is written to the log; for 403 critical is called
Log_Error ==
  /\ input.of = "logger"
  /\ output.pc = "logError"
  /\ output' = IF input.statusCode = 403
               THEN [output EXCEPT !.entries = @ + 1, !.pc = "critical", !.depth = 1]
               ELSE [output EXCEPT !.entries = @ + 1, !.pc = "done", !.result = "resolved"]
  /\ UNCHANGED input
  /\ UNCHANGED <<ledgerVars, searchVars, runVars>>

\* lines 332-338: one console line, one log entry, then sendAlert is called;
\* with the call stack used up the call throws RangeError instead
Log_Critical ==
  /\ input.of = "logger"
  /\ output.pc = "critical"
  /\ output' = IF output.depth > MaxStack
               THEN [output EXCEPT !.pc = "overflow"]
               ELSE [output EXCEPT !.lines = @ + 1, !.entries = @ + 1, !.pc = "sendAlert"]
  /\ UNCHANGED input
  /\ UNCHANGED <<ledgerVars, searchVars, runVars>>

\* lines 451-463: sendAlert calls critical with 'ALERT: ' before the message,
\* in the same synchronous call chain
Log_SendAlert ==
  /\ input.of = "logger"
  /\ output.pc = "sendAlert"
  /\ output' = [output EXCEPT !.alerts = @ + 1, !.depth = @ + 1, !.pc = "critical"]
  /\ UNCHANGED input
  /\ UNCHANGED <<ledgerVars, searchVars, runVars>>

\* the RangeError rejects the promise of the innermost sendAlert, which no
\* one handles: the calls below it return and logError resolves, or the
\* process ends on the unhandled rejection
Log_Overflow ==
  /\ input.of = "logger"
  /\ output.pc = "overflow"
  /\ \E result \in {"resolved", "exit"} :
       output' = [output EXCEPT !.pc = "done", !.depth = 0, !.result = result]
  /\ UNCHANGED input
  /\ UNCHANGED <<ledgerVars, searchVars, runVars>>

InitLogger ==
  /\ InitLedger /\ InitSearch /\ InitRun
  /\ \E statusCode \in {403, 429, 500} : input = [of |-> "logger", statusCode |-> statusCode]
  /\ output = [of |-> "logger", pc |-> "logError", depth |-> 0, lines |-> 0,
               entries |-> 0, alerts |-> 0, result |-> "none"]

LoggerNext ==
  \/ Log_Error
  \/ Log_Critical
  \/ Log_SendAlert
  \/ Log_Overflow

\* logError on any status code
LoggerSpec == InitLogger /\ [][LoggerNext]_vars

\* ------------------------------------------------------------------ claims
\* The persisted state an operation starts from is dated today
FileToday == file # <<>> /\ file[1].date = Today(now)

\* The persisted state holds a backoff window that has not ended
FileBackoffAhead == file[1].backoffUntil # NULL /\ file[1].backoffUntil > now

\* The persisted state holds a backoff window that has ended
FileBackoffPassed == file[1].backoffUntil # NULL /\ file[1].backoffUntil < now

\* C1: canMakeRequest, started from a persisted state that is dated today,
\* has viewCount >= DAILY_VIEW_LIMIT and has no backoffUntil in the future,
\* returns allowed = false with reason 'daily_limit'.
C1_DailyLimitDenied ==
  [][(CanMakeRequest /\ FileToday /\ file[1].viewCount >= DAILY_VIEW_LIMIT
        /\ ~FileBackoffAhead)
      => (~last'.res.allowed /\ last'.res.reason = "daily_limit")]_vars

C1_Witness ==
  /\ last.op = "canMakeRequest"
  /\ ~last.res.allowed /\ last.res.reason = "daily_limit"
  /\ rateLimitState.date = Today(now)
  /\ rateLimitState.viewCount >= DAILY_VIEW_LIMIT
  /\ rateLimitState.backoffUntil = NULL

\* The remaining duration r, in whole minutes: the window ends within the
\* r-th minute from now
IsRemaining(r, until) ==
  (r - 1) * TicksPerMinute < until - now /\ until - now <= r * TicksPerMinute

C3_Windows ==
  /\ \A i \in 1..Len(streak) :
        streak[1].count = 1
          => streak[i].minutes = BACKOFF_BASE * Pow(BACKOFF_MULTIPLIER, i - 1)
  /\ \A i \in 1..(Len(streak) - 1) : streak[i].minutes < streak[i + 1].minutes
  /\ (last.op = "handleRateLimitError" /\ last.arg = "429")
        => /\ streak # <<>>
           /\ rateLimitState.backoffUntil =
                now + streak[Len(streak)].minutes * TicksPerMinute

C3_PerKind ==
  (FileToday /\ (HandleForbiddenError \/ (HandleRateLimitError /\ last'.arg = "network")))
    => rateLimitState'.errors["429"] = file[1].errors["429"]

C4_ViewCountKept ==
  (rateLimitState.date = Today(now'))
    => rateLimitState'.viewCount >= rateLimitState.viewCount

C4_BackoffKept ==
  /\ (RestartLedger /\ rateLimitState.date = Today(now)
        /\ rateLimitState.backoffUntil # NULL /\ rateLimitState.backoffUntil > now)
       => /\ rateLimitState'.backoffUntil = rateLimitState.backoffUntil
          /\ file' = <<rateLimitState'>>
  /\ (CanMakeRequest /\ FileToday /\ FileBackoffAhead) => ~last'.res.allowed

C4_RestartKeepsLedger == [][C4_ViewCountKept /\ C4_BackoffKept]_vars

C6_Admitted ==
  /\ pc \in {"admitted", "ready", "navigated"} => call.admitted
  /\ (call.navigated \/ call.session) => call.admitted

C6_Denied ==
  (SP_CanMakeRequest /\ ~last'.res.allowed)
    => /\ pc' = "idle"
       /\ call'.result = "thrown"
       /\ ~call'.session /\ ~call'.navigated
       /\ rateLimitState'.viewCount = rateLimitState.viewCount
       /\ searchCount' = searchCount
       /\ sharedBrowser' = sharedBrowser
       /\ issuedDay' = issuedDay

C6_NoRequestWithoutAdmission ==
  [](C6_Admitted) /\ [][C6_Denied]_vars /\ [][SP_Navigate => call.admitted]_vars

C6_Witness ==
  /\ last.op = "canMakeRequest" /\ ~last.res.allowed
  /\ call.result = "thrown" /\ call.error = "daily_limit"
  /\ pc = "idle"
  /\ sharedBrowser /\ searchCount > 0
  /\ rateLimitState.viewCount = DAILY_VIEW_LIMIT

\* C7: on one UTC date the number of search navigations that are admitted
\* and issued never exceeds DAILY_VIEW_LIMIT, restarts included.
C7_DailyQuota == IssuedOn(now) <= DAILY_VIEW_LIMIT

\* C8: a load that finds a persisted state of another UTC date sets
\* viewCount to 0 and date to today and persists that before the calling
\* operation applies its effect; a load that finds a persisted state of
\* today's date resets viewCount neither in rateLimitState nor in the file.
C8_LoadOtherDate ==
  (file # <<>> /\ file[1].date # Today(now))
    => /\ (GetStatus \/ RestartLedger \/ CanMakeRequest)
            => /\ rateLimitState'.viewCount = 0
               /\ rateLimitState'.date = Today(now)
               /\ file' = <<rateLimitState'>>
       /\ RecordView
            => /\ rateLimitState'.viewCount = 1
               /\ rateLimitState'.date = Today(now)
               /\ file' = <<rateLimitState'>>

C8_LoadSameDate ==
  (FileToday /\ (GetStatus \/ RestartLedger \/ CanMakeRequest))
    => /\ rateLimitState'.viewCount = file[1].viewCount
       /\ file'[1].viewCount = file[1].viewCount

C8_Rollover == [][C8_LoadOtherDate /\ C8_LoadSameDate]_vars

\* C9 as stated: handleForbiddenError adds 1 to errors['403'] and leaves
\* backoffUntil, viewCount, date and the other counters as persisted.
C9_Original ==
  [][(HandleForbiddenError /\ FileToday)
      => /\ rateLimitState'.errors["403"] = file[1].errors["403"] + 1
         /\ rateLimitState'.backoffUntil = file[1].backoffUntil
         /\ rateLimitState'.viewCount = file[1].viewCount
         /\ rateLimitState'.date = file[1].date
         /\ \A k \in ErrorKinds \ {"403"} :
               rateLimitState'.errors[k] = file[1].errors[k]]_vars

\* C9 amended: handleForbiddenError adds 1 to errors['403'] and leaves
\* viewCount, date and the other counters as persisted; it leaves
\* backoffUntil as persisted too, except that a backoffUntil that has already
\* passed is cleared to null by the load: it never sets a window and never
\* moves one.
C9_ForbiddenFrame ==
  [][(HandleForbiddenError /\ FileToday)
      => /\ rateLimitState'.errors["403"] = file[1].errors["403"] + 1
         /\ rateLimitState'.backoffUntil =
               (IF FileBackoffPassed THEN NULL ELSE file[1].backoffUntil)
         /\ rateLimitState'.viewCount = file[1].viewCount
         /\ rateLimitState'.date = file[1].date
         /\ \A k \in ErrorKinds \ {"403"} :
               rateLimitState'.errors[k] = file[1].errors[k]
         /\ file' = <<rateLimitState'>>]_vars

C9_Witness ==
  /\ last.op = "handleForbiddenError"
  /\ ~last.reset
  /\ rateLimitState.errors["403"] = 2
  /\ rateLimitState.backoffUntil # NULL /\ rateLimitState.backoffUntil > now
  /\ rateLimitState.viewCount > 0

\* C10 as stated: canMakeRequest denies with reason 'daily_limit' whenever
\* viewCount >= DAILY_VIEW_LIMIT, with or without an active backoff window.
C10_Original ==
  [][(CanMakeRequest /\ FileToday /\ file[1].viewCount >= DAILY_VIEW_LIMIT)
      => (~last'.res.allowed /\ last'.res.reason = "daily_limit")]_vars

\* C10 amended: canMakeRequest denies whenever viewCount >= DAILY_VIEW_LIMIT,
\* with or without an active backoff window; the reason is 'backoff' while
\* a backoff window is active and 'daily_limit' otherwise.
C10_QuotaAlwaysDenied ==
  [][(CanMakeRequest /\ FileToday /\ file[1].viewCount >= DAILY_VIEW_LIMIT)
      => /\ ~last'.res.allowed
         /\ last'.res.reason = (IF FileBackoffAhead THEN "backoff" ELSE "daily_limit")]_vars

C10_Witness ==
  /\ last.op = "canMakeRequest"
  /\ ~last.res.allowed /\ last.res.reason = "backoff"
  /\ rateLimitState.date = Today(now)
  /\ rateLimitState.viewCount >= DAILY_VIEW_LIMIT

\* The call of searchPeople for the unit has ended by throwing message e
UnitThrew(e) == run.st = "searching" /\ pc = "idle" /\ call.result = "thrown" /\ call.error = e

\* C11: once the search navigation of a unit returns 403 (or meets a block
\* page), startScraping halts the run: the step that handles the error thrown
\* by searchPeople ends the run, so that no later unit is searched and the
\* failed unit is not tried again.
C11_ForbiddenHalts ==
  [][(Run_Handle /\ (UnitThrew("403") \/ UnitThrew("cloudflare")))
      => (run'.st = "ended" /\ run'.did = "halt")]_vars

\* C12: a unit whose search navigation meets a page asking for a one-time
\* code makes startScraping stop with requiresVerification = true (the page
\* is kept for verifyCode, whose success lets the next unit be searched on
\* the same session): the step that handles the end of that unit's call ends
\* the run with that result and leaves the session open.
C12_VerificationPause ==
  [][(Run_Handle /\ call.response = "verification")
      => /\ run'.st = "ended"
         /\ run'.result = "requiresVerification"
         /\ sharedBrowser' = sharedBrowser]_vars

\* C13: after the search navigation searchPeople reports a page asking for a
\* one-time code by throwing VERIFICATION_REQUIRED, a page showing a CAPTCHA
\* by throwing CAPTCHA_REQUIRED and a page with block markers by throwing its
\* own error, and in none of the three cases does it navigate again or
\* return a list of results.
C13_ChallengeSignals ==
  [][SP_Respond
      => /\ nav = "verification"
              => (call'.result = "thrown" /\ call'.error = "VERIFICATION_REQUIRED")
         /\ nav = "captcha"
              => (call'.result = "thrown" /\ call'.error = "CAPTCHA_REQUIRED")
         /\ nav = "cloudflare"
              => (call'.result = "thrown" /\ call'.error = "cloudflare")
         /\ nav \in {"verification", "captcha", "cloudflare"}
              => (pc' = "idle" /\ issuedDay' = issuedDay)]_vars

\* C14: when canMakeRequest denies a unit with reason daily_limit,
\* startScraping ends the run at that unit: it returns dailyLimitReached
\* (success = false), closes the shared browser, and makes no further search,
\* hand-off or checkpoint write, neither for the company of the unit nor for
\* a later one.
C14_AtDenial ==
  (Run_Handle /\ UnitThrew("daily_limit"))
    => /\ ~call.session /\ ~call.navigated
       /\ run'.st = "ended"
       /\ run'.did = "halt"
       /\ run'.result = "dailyLimitReached"
       /\ ~sharedBrowser' /\ openContexts' = 0
       /\ run'.checkpoints = run.checkpoints
       /\ run.company \notin run'.checkpoints

C14_AfterEnd ==
  (run.st = "ended")
    => (run' = run /\ pc' = "idle" /\ call' = call /\ issuedDay' = issuedDay
          /\ sharedBrowser' = sharedBrowser)

C14_QuotaAbort ==
  /\ [](UnitThrew("daily_limit") => ~rateLimitState.viewCount < DAILY_VIEW_LIMIT)
  /\ [][C14_AtDenial /\ C14_AfterEnd]_vars

C14_Witness ==
  /\ run.st = "ended"
  /\ run.result = "dailyLimitReached"
  /\ run.company = 2
  /\ run.checkpoints = {1}
  /\ call.result = "thrown" /\ call.error = "daily_limit"
  /\ rateLimitState.viewCount = DAILY_VIEW_LIMIT
  /\ ~sharedBrowser

\* C15: when the admission of a unit is denied with reason backoff, the
\* orchestrator waits until the backoff has passed and then makes that
\* unit's search: the step that handles the denial leaves the run at the same
\* unit, to be searched again, and no unit is passed over.
C15_BackoffWaits ==
  [][(Run_Handle /\ UnitThrew("backoff"))
      => /\ run'.st = "unit"
         /\ run'.company = run.company
         /\ run'.title = run.title]_vars

\* C16: a network failure of the search navigation (a timeout or a
\* connection error) is surfaced by searchPeople to its caller as an error,
\* not as a list of results, and the navigation is not made again.
C16_NetworkSurfaced ==
  [][(SP_Respond /\ nav \in {"error", "closed"})
      => /\ call'.result = "thrown"
         /\ pc' = "idle"
         /\ issuedDay' = issuedDay]_vars

\* C17: within a run the steps of the units do not interleave: every step of a
\* searchPeople call belongs to the unit the run is at, the navigation comes
\* after the admission of the same call, the results are filtered and handed
\* off only after the call has returned, and the run moves to another unit,
\* or starts the admission check of one, only when no call is in flight.
C17_Steps ==
  /\ SP_Navigate => (call.admitted /\ ~call.navigated)
  /\ (Run_Handle /\ run'.did = "handoff")
       => (pc = "idle" /\ call.result = "returned" /\ call.admitted)
  /\ (run.st # "none" /\ (run'.company # run.company \/ run'.title # run.title))
       => (pc = "idle" /\ pc' = "idle" /\ run.st \in {"searching", "checkpoint"})
  /\ (last'.op = "canMakeRequest")
       => (run.st = "unit" /\ pc = "idle" /\ run'.st = "searching"
             /\ run'.company = run.company /\ run'.title = run.title)

C17_InOrder ==
  /\ [](pc # "idle" => run.st = "searching")
  /\ [](run.st = "searching" => call.result # "none")
  /\ [][C17_Steps]_vars

C17_Witness ==
  /\ run.st = "searching"
  /\ run.company = 1 /\ run.title = 2
  /\ run.did = "handoff"
  /\ pc = "navigated"
  /\ call.admitted /\ call.navigated
  /\ recorded = 1

\* C19: at most one browser context is open at a time and it is the
\* registered one: a context is launched only when none is open, and after
\* closeSharedBrowser none is open or registered.
C19_Closed ==
  /\ (SP_Respond /\ nav \in {"403", "closed"}) => (~sharedBrowser' /\ openContexts' = 0)
  /\ (SP_GetSharedBrowser /\ call'.launched /\ sharedBrowser) => call'.probe = "failed"

C20_Reuse ==
  (SP_GetSharedBrowser /\ sharedBrowser /\ call'.probe = "ok")
    => /\ call'.session /\ ~call'.launched
       /\ sharedBrowser'
       /\ openContexts' = openContexts
       /\ searchCount' = searchCount + 1

C20_Original ==
  [][/\ C20_Reuse
     /\ (SP_GetSharedBrowser /\ sharedBrowser /\ call'.probe = "failed")
          => /\ call'.session /\ call'.launched
             /\ sharedBrowser'
             /\ searchCount' = 1]_vars

\* C20 amended: with a registered session, getSharedBrowser returns that
\* session when its liveness probe passes, launching nothing and leaving
\* searchCount as it is; when the probe fails it closes the old session and
\* constructs a new one: it returns the new session, with searchCount
\* starting at 0, or, when the construction fails, throws the error of the
\* construction and leaves no session registered.
C20_ReuseOrRecreate ==
  [][/\ C20_Reuse
     /\ (SP_GetSharedBrowser /\ call'.probe # "ok") => (call'.probe = "failed" <=> sharedBrowser)
     /\ (SP_GetSharedBrowser /\ sharedBrowser /\ call'.probe = "failed")
          => IF call'.session
             THEN /\ call'.launched
                  /\ sharedBrowser'
                  /\ openContexts' = openContexts
                  /\ searchCount' = 1
             ELSE /\ call'.result = "thrown" /\ call'.error = "session"
                  /\ pc' = "idle"
                  /\ ~sharedBrowser'
                  /\ openContexts' = openContexts - 1
                  /\ searchCount' = 0]_vars

C20_Witness ==
  /\ pc = "ready"
  /\ call.probe = "failed" /\ call.session /\ call.launched
  /\ sharedBrowser
  /\ searchCount = 1
  /\ recorded > 0

\* The searchPeople calls in flight in the process
InFlight == (IF pc # "idle" THEN 1 ELSE 0) + (IF parked.pc # "idle" THEN 1 ELSE 0)

\* C18: at any time at most one searchPeople call is in flight in the
\* process, whatever entry points are used (the run at server start,
\* POST /start).
C18_SingleWorker == InFlight <= 1

\* C21: when the validation of the injected cookie fails, getSharedBrowser
\* closes the browser it has just launched, registers no shared session and
\* throws, and the run does not try again: the step of startScraping that
\* handles the error ends the run, so that no session is constructed and no
\* search is made for a later unit.
C21_ConstructionFatal ==
  [][/\ (SP_GetSharedBrowser /\ call'.result = "thrown")
          => (call'.error = "session" /\ ~sharedBrowser' /\ openContexts' = 0
                /\ pc' = "idle")
     /\ (Run_Handle /\ UnitThrew("session")) => run'.st = "ended"]_vars

\* C22: within the lifetime of a session, searchPeople visits the feed
\* before the search navigation of the searches whose searchCount is a
\* multiple of 5 and of no other; searchCount grows by 1 with each admitted
\* search that gets the session, starting from 0 for a new session, and goes
\* back to 0 only when the session is closed or constructed anew.
C22_Count ==
  /\ (SP_GetSharedBrowser /\ call'.session)
       => /\ searchCount' = (IF call'.launched THEN 0 ELSE searchCount) + 1
          /\ call'.detour <=> (searchCount' % 5 = 0)
  /\ SP_Navigate => (call.detour <=> (searchCount % 5 = 0))
  /\ (searchCount' # searchCount /\ ~(SP_GetSharedBrowser /\ call'.session))
       => (searchCount' = 0 /\ ~sharedBrowser')

C22_PeriodicDetour ==
  /\ [](sharedBrowser \/ searchCount = 0)
  /\ [][C22_Count]_vars

C22_Witness ==
  /\ pc = "navigated"
  /\ call.detour /\ call.navigated /\ ~call.launched
  /\ searchCount = 5
  /\ sharedBrowser

\* C23: searchPeople tries the extractors in a fixed order and the first
\* result that is not empty wins: the fallback extractor runs if and only if
\* the primary one returned no candidate, its result is then returned as it
\* is, and the results of the two are never merged.
C23_FirstNonEmptyWins ==
  (output.of = "page")
    => /\ output.primary = extractSearchResultsWithCheerio(input.page)
       /\ output.fallback <=> (Len(output.primary) = 0)
       /\ output.results = IF output.fallback
                           THEN extractSearchResults(input.page)
                           ELSE output.primary

C23_Witness ==
  /\ output.of = "page"
  /\ output.fallback
  /\ Len(output.results) = 2
  /\ Len(input.page.anchors) = 2

\* C24: the candidates one extraction returns hold no two entries of the
\* same normalized profileUrl, a relative and an absolute link to one profile
\* being the same url, and the entry kept for a url is its first occurrence
\* in document order.
C24_Deduplicated ==
  (output.of = "page")
    => /\ \A i, j \in 1..Len(output.results) :
            i # j => output.results[i].profileUrl # output.results[j].profileUrl
       /\ \A k \in 1..Len(output.results) : \A i \in 1..Len(input.page.anchors) :
            (i < output.results[k].anchor
               /\ fullUrl(href(input.page.anchors[i])) = output.results[k].profileUrl)
              => (~output.fallback /\ input.page.anchors[i].place = "loose")

\* C25: for a page whose structured data holds Person records of two
\* profiles, one of them twice, the extraction returns two candidates, each
\* with extractionSource = structured-data, and the same list at every call.
C25_Fixture ==
  /\ input.of = "page"
  /\ Len(input.page.records) = 3
  /\ Cardinality({input.page.records[i] : i \in 1..3}) = 2

C25_StructuredData ==
  /\ [](C25_Fixture /\ output.of = "page"
          => /\ Len(output.results) = 2
             /\ \A k \in 1..Len(output.results) :
                  /\ "extractionSource" \in DOMAIN output.results[k]
                  /\ output.results[k].extractionSource = "structured-data")
  /\ [][(Extract /\ output.of = "page") => output' = output]_vars

\* The person filterResults was applied to, and whether it was kept
ThePerson == input.results[1]
Kept == Len(output.filtered) = 1

\* The words of a normalized text that count: longer than 2 and no stop word
SignificantWords(text) ==
  SelectSeq(split(text), LAMBDA w : Len(w) > 2 /\ w \notin stopWords)

\* The word is a word of the normalized text or the beginning of one
OccursIn(word, text) ==
  \E k \in 1..Len(split(text)) : startsWith(split(text)[k], word)

\* One of the two normalized texts contains the other
Contained(a, b) == includes(a, b) \/ includes(b, a)

\* The rule of C26 for a title and a role
RoleRule(title, role) ==
  LET t == normalizeTitle(title)
      r == normalizeTitle(role)
      words == SignificantWords(r)
      n == Len(words)
      found == Len(SelectSeq(words, LAMBDA w : OccursIn(w, t)))
  IN IF n > 0
     THEN found >= (IF Ceil(n, 2) > 1 THEN Ceil(n, 2) ELSE 1) \/ Contained(t, r)
     ELSE Contained(t, r)

\* The rule of C28 for an employer text and the target company
CompanyRule(employer, company) ==
  LET e == normalizeTitle(employer)
      c == normalizeTitle(company)
      words == SignificantWords(c)
      found == Len(SelectSeq(words, LAMBDA w : OccursIn(w, e)))
  IN Len(employer) = 0 \/ Contained(e, c) \/ (Len(words) > 0 /\ 2 * found >= Len(words))

\* C26: a candidate with a profile URL and a title that is not empty is kept
\* if and only if, both texts normalized, at least max(1, ceil(0.5 * n)) of
\* the n significant words of the role occur in the title as a word or as
\* the beginning of a word, or one text contains the other (with n = 0 the
\* containment alone); a candidate without a profile URL is discarded.  For
\* the role 'Marketing Manager' the title 'Senior Marketing Manager' is kept
\* and 'Software Engineer' is dropped.
C26_RoleMatch ==
  (output.of = "results")
    => /\ (Len(ThePerson.profileUrl) > 0 /\ Len(ThePerson.title) > 0)
            => (Kept <=> RoleRule(ThePerson.title, input.jobTitle))
       /\ Len(ThePerson.profileUrl) = 0 => ~Kept

\* C27: a candidate with no title at all is kept when it has a profile URL
\* and its company matches the target company.
C27_NoTitleKept ==
  (output.of = "results" /\ Len(ThePerson.title) = 0 /\ Len(ThePerson.profileUrl) > 0
     /\ CompanyRule(ThePerson.company, input.companyName))
    => Kept

\* C28: a candidate whose employer text is not empty and does not match the
\* target company is discarded.
C28_CompanyMatch ==
  (output.of = "results" /\ ~CompanyRule(ThePerson.company, input.companyName))
    => ~Kept

\* C29: updateLastScrape is called for a company only after every one of
\* that company's SearchUnits has completed its search in this run: the step
\* that checkpoints a company is taken only when no unit of that company was
\* passed over (denied admission or failed).
C29_CheckpointAfterCompletion ==
  [][Run_Checkpoint => ~run.skipped]_vars

\* the persons of the filtered results that are the candidate p
EntriesOf(p) ==
  {k \in 1..Len(input.filteredResults) : input.filteredResults[k] = p}

RECURSIVE SumCreates(_)
SumCreates(ks) ==
  IF ks = {} THEN 0
  ELSE LET k == CHOOSE x \in ks : TRUE IN output.creates[k] + SumCreates(ks \ {k})

\* createPersonTask is called for a person only after checkPersonExists was
\* called for it and returned false
CheckedFirst ==
  \A k \in 1..Len(input.filteredResults) :
    output.creates[k] > 0 => output.exists[k] = "false"

\* a failed create is logged, and the loop goes on to the persons after it
\* and ends without throwing
FailureContained ==
  \A k \in 1..Len(input.filteredResults) :
    /\ output.creates[k] <= 1
    /\ output.logged[k] = "error" => output.creates[k] = 1 /\ output.i >= k
    /\ output.pc = "done" => output.exists[k] # "none"

\* C30: in the hand-off of a unit checkPersonExists is called for each
\* candidate before any create; createPersonTask is called at most once for
\* a candidate and only when the check returned false; a failed create is
\* logged, is not made again and does not stop the hand-off of the others.
C30_Handoff ==
  input.of = "handoff" =>
    /\ CheckedFirst
    /\ FailureContained
    /\ \A p \in Profiles : SumCreates(EntriesOf(p)) <= 1

\* the date three months before the date today, the day kept within its month
ThreeMonthsBefore(today) ==
  LET first == NewDate(getFullYear(today), getMonth(today) - 3, 1)
      days == MonthDays[getMonth(first) + 1]
  IN first + (IF getDate(today) < days THEN getDate(today) ELSE days) - 1

\* C31: a run searches only the companies for which shouldScrapeCompany is
\* true at its start: a company whose last scrape date is less than three
\* months old is never selected, so a company checkpointed by one run is not
\* searched again by a run started less than three months later.
C31_StalenessSkip ==
  [][Stale_Select /\ output'.selected /\ output.lastLinkedinScrape # NoDate
       => parseDate(output.lastLinkedinScrape) <= ThreeMonthsBefore(output.today)]_vars

\* C32: a stop signal takes effect only at the boundary of a unit, never
\* while a navigation is in progress: the process does not stop between a
\* search navigation of searchPeople and the handling of its response, so
\* that no navigation it has issued is left without its record.
C32_StopAtBoundary ==
  [][Restart => pc # "navigated"]_vars

\* C33: a run in which the account was restricted (403) or a verification or
\* CAPTCHA challenge stayed unresolved never returns success = true: a run
\* that has returned success did not get, in the last search it made, a 403
\* response or a page asking for a one-time code or showing a CAPTCHA.
C33_ActionableStatus ==
  (run.st = "ended" /\ run.result = "success")
    => call.response \notin {"403", "verification", "captcha"}

\* the call of scrape got a 429 from a profile navigation
GotRateLimited == input.of = "scrape" /\ output.limitedAt > 0

\* after a 429 no further URL is visited, and the browser is closed before
\* scrape settles
StopsAndCloses ==
  GotRateLimited =>
    /\ output.visited = output.limitedAt
    /\ (output.settled # "none" => ~output.browser /\ output.settled = "rejected")

\* C34: on a 429 from a profile navigation scrape performs the 30-minute
\* backoff wait exactly once, visits no further URL during or after the
\* wait, and closes the browser before it settles.
C34_BackoffOnce ==
  /\ StopsAndCloses
  /\ (GotRateLimited /\ output.settled # "none" => output.waits = 1)
  /\ (input.of = "scrape" => output.waits <= 1)

\* C35: from the moment handleRateLimitError sets backoffUntil = T until
\* time reaches T every canMakeRequest returns allowed = false, across other
\* ledger operations, a change of the UTC date and a restart: a call of
\* canMakeRequest made while the persisted backoffUntil is later than now
\* is denied.
C35_WindowEnforced ==
  [][(CanMakeRequest /\ file # <<>> /\ FileBackoffAhead) => ~last'.res.allowed]_vars

\* C36: errors[kind] is the length of the current run of consecutive
\* failures of that kind: a rate-limited failure that follows a recorded
\* search (recordView) on the same UTC date starts a new run and gets the
\* base window of BACKOFF_BASE minutes.
C36_ConsecutiveCount ==
  [][(HandleRateLimitError /\ last'.arg = "429" /\ last.op = "recordView" /\ ~last'.reset)
      => /\ last'.res.backoffMinutes = BACKOFF_BASE
         /\ rateLimitState'.errors["429"] = 1]_vars

\* C37: a single 429 response to a search navigation makes searchPeople
\* register exactly one rate-limited failure, and a single 403 response
\* exactly one forbidden failure: the step that handles the response leaves
\* the counter of its kind one above the persisted one.
C37_OneFailurePerResponse ==
  [][(SP_Respond /\ nav \in {"429", "403"} /\ FileToday)
      => rateLimitState'.errors[nav] = file[1].errors[nav] + 1]_vars

\* a launcher has at most one run in progress, and its flag is set exactly
\* while that run is in progress
Guarded(l) ==
  /\ l.live <= 1
  /\ l.isRunning <=> l.live = 1

\* C38: scrapeController.startScraping answers 400 and launches no run while
\* a run it launched is in progress, and checkAndScrapeCompanies skips a
\* tick while its previous run is in progress; in both the flag is set from
\* the launch of the run until the run ends, with any outcome, and is false
\* afterwards, so that a later start is accepted.
C38_RunGuards ==
  input.of = "guards" =>
    /\ Guarded(output.ctl)
    /\ Guarded(output.sch)
    /\ output.ctl.refused + output.ctl.started = output.ctl.asked
    /\ output.sch.refused + output.sch.started = output.sch.asked

C38_Witness ==
  /\ input.of = "guards"
  /\ output.ctl.refused = 1 /\ output.ctl.started = 2 /\ output.ctl.isRunning
  /\ output.ctl.outcome = "requiresVerification"
  /\ output.sch.refused = 1 /\ output.sch.started = 2 /\ output.sch.isRunning
  /\ output.sch.outcome = "nothing to scrape"

\* C39: critical(message) ends after a bounded number of steps: it writes
\* one console line and one log entry and sends one alert, and sendAlert
\* does not enter critical again, so that logError with status 403 writes
\* its own log entry and that of critical and completes.
C39_CriticalBounded ==
  input.of = "logger" =>
    /\ output.lines <= 1
    /\ output.alerts <= 1
    /\ output.entries <= 2
    /\ output.depth <= 1
    /\ output.result # "exit"

====
